---- MODULE Spec2Model ----
(***************************************************************************)
(* MultisigHelper: the PSBT record store (server/database.js, routes/      *)
(* psbts.js), the browser client's upload / merge handlers, the broadcast  *)
(* flow and the confirmation pollers (public/app.js).                      *)
(*                                                                         *)
(* A PSBT is modelled by its content: the unsigned transaction (ordered    *)
(* input outpoints and an output tag) and, per input, the witness script   *)
(* (m, n) and the set of public keys that have a partial signature.  The   *)
(* transaction id is a function of the unsigned transaction only.          *)
(* A client action runs from one await to the next: the server's handling  *)
(* of the pending request and the client's continuation are one step.      *)
(***************************************************************************)
EXTENDS Integers, Sequences, FiniteSets, TLC

\* ---------------------------------------------------------------- bounds
NumClients == 2
NumKeys == 2
MaxRecords == 2
MaxShared == 1
MaxTip == 2
MaxChains == 3

\* ------------------------------------------------------ program constants
FINALITY == 6
DefaultM == 2
DefaultN == 2

Clients == 1..NumClients
Keys == 1..NumKeys
Endpoints == {"Blockstream", "Mempool.space"}
VerifyEndpoints == {"Blockstream", "Mempool.space", "Blockchain.info"}

\* ------------------------------------------------------------ PSBT content
Tx(ins, outs) == [ins |-> ins, outs |-> outs]
TxMain == Tx(<<1, 2>>, 1)
TxAlt == Tx(<<1, 2>>, 2)
TxOther == Tx(<<3>>, 1)
TxSwap == Tx(<<2, 1>>, 1)
TxMixed == Tx(<<1, 3>>, 1)
TxList == <<TxMain, TxAlt, TxOther, TxSwap, TxMixed>>
NoTx == Tx(<<>>, 0)

\* tx.getId(): the id of the unsigned transaction (witness data excluded); 0 is NULL
TxId(tx) == CHOOSE i \in 1..Len(TxList) : TxList[i] = tx

\* the witness script of the output an input spends: outpoint 3 is a 1-of-N output
WitnessScript(outpoint) == [m |-> IF outpoint = 3 THEN 1 ELSE 2, n |-> NumKeys]

PsbtInput(outpoint, sigs) == [partialSig |-> sigs, witnessScript |-> WitnessScript(outpoint)]

Psbt(tx, sigs) ==
    [tx |-> tx, inputs |-> [i \in 1..Len(sigs) |-> PsbtInput(tx.ins[i], sigs[i])]]

NoPsbt == [tx |-> NoTx, inputs |-> <<>>]

Max(a, b) == IF a >= b THEN a ELSE b

\* countPsbtSignatures: the maximum over the inputs of partialSig.length
RECURSIVE CountFrom(_, _, _)
CountFrom(inputs, i, acc) ==
    IF i > Len(inputs) THEN acc
    ELSE CountFrom(inputs, i + 1,
                   IF Cardinality(inputs[i].partialSig) > 0
                   THEN Max(acc, Cardinality(inputs[i].partialSig)) ELSE acc)

countPsbtSignatures(psbt) == CountFrom(psbt.inputs, 1, 0)

\* getSignatureInfo: signatures as above; required / total are those of the
\* last input whose witness script decodes to m > 0 and n > 0 (defaults 2, 2)
RECURSIVE SigInfoFrom(_, _, _)
SigInfoFrom(inputs, i, acc) ==
    IF i > Len(inputs) THEN acc
    ELSE LET inp == inputs[i]
             sigs == IF Cardinality(inp.partialSig) > 0
                     THEN Max(acc.signatures, Cardinality(inp.partialSig))
                     ELSE acc.signatures
             ok == inp.witnessScript.m > 0 /\ inp.witnessScript.n > 0
         IN SigInfoFrom(inputs, i + 1,
                [signatures |-> sigs,
                 required |-> IF ok THEN inp.witnessScript.m ELSE acc.required,
                 total |-> IF ok THEN inp.witnessScript.n ELSE acc.total])

\* a count that adds up the partial signatures of all inputs
RECURSIVE SumFrom(_, _)
SumFrom(inputs, i) ==
    IF i > Len(inputs) THEN 0
    ELSE Cardinality(inputs[i].partialSig) + SumFrom(inputs, i + 1)

getSignatureInfoSum(psbt) ==
    LET r == SigInfoFrom(psbt.inputs, 1,
                 [signatures |-> 0, required |-> DefaultM, total |-> DefaultN])
    IN [signatures |-> SumFrom(psbt.inputs, 1), required |-> r.required, total |-> r.total,
        isComplete |-> SumFrom(psbt.inputs, 1) >= r.required]

getSignatureInfo(psbt) ==
    LET r == SigInfoFrom(psbt.inputs, 1,
                 [signatures |-> 0, required |-> DefaultM, total |-> DefaultN])
    IN [signatures |-> r.signatures, required |-> r.required, total |-> r.total,
        isComplete |-> r.signatures >= r.required]

\* Psbt.combine: throws unless both hold the same unsigned transaction;
\* otherwise every input takes the union of the partial signatures (keyed by pubkey)
CombineThrows(a, b) == a.tx # b.tx

\* a merge that pools the other PSBT's signatures over all inputs
combinePooled(a, b) ==
    [tx |-> a.tx,
     inputs |-> [i \in DOMAIN a.inputs |->
                   [partialSig |-> a.inputs[i].partialSig
                                     \cup UNION {b.inputs[j].partialSig : j \in DOMAIN b.inputs},
                    witnessScript |-> a.inputs[i].witnessScript]]]

\* a merge in which the other PSBT's signatures of an input replace those present
combineReplacing(a, b) ==
    [tx |-> a.tx,
     inputs |-> [i \in DOMAIN a.inputs |->
                   [partialSig |-> IF b.inputs[i].partialSig # {} THEN b.inputs[i].partialSig
                                   ELSE a.inputs[i].partialSig,
                    witnessScript |-> a.inputs[i].witnessScript]]]

combine(a, b) ==
    [tx |-> a.tx,
     inputs |-> [i \in DOMAIN a.inputs |->
                   [partialSig |-> a.inputs[i].partialSig \cup b.inputs[i].partialSig,
                    witnessScript |-> a.inputs[i].witnessScript]]]

\* the output an input spends: the hash bytes of the previous transaction as the
\* transaction holds them, and the output index; strings are sequences of code units
OutpointOf(outpoint) ==
    IF outpoint = 1 THEN [hash |-> <<10, 171>>, index |-> 2]
    ELSE IF outpoint = 2 THEN [hash |-> <<10, 171>>, index |-> 10]
    ELSE [hash |-> <<171, 10>>, index |-> 0]

RECURSIVE Reverse(_)
Reverse(s) == IF s = <<>> THEN <<>> ELSE Reverse(Tail(s)) \o <<Head(s)>>

HexDigit(d) == IF d < 10 THEN 48 + d ELSE 87 + d

\* toString('hex')
RECURSIVE HexOf(_)
HexOf(bytes) ==
    IF bytes = <<>> THEN <<>>
    ELSE <<HexDigit(Head(bytes) \div 16), HexDigit(Head(bytes) % 16)>> \o HexOf(Tail(bytes))

\* the decimal digits of a number, as + inp.index appends them
RECURSIVE Digits(_)
Digits(n) == IF n < 10 THEN <<48 + n>> ELSE Digits(n \div 10) \o <<48 + (n % 10)>>

\* Buffer.from(inp.hash).reverse().toString('hex') + ':' + inp.index
InputKey(outpoint) ==
    HexOf(Reverse(OutpointOf(outpoint).hash)) \o <<58>> \o Digits(OutpointOf(outpoint).index)

\* the order of Array.prototype.sort without a comparator: by code units, a prefix first
RECURSIVE StrLeq(_, _)
StrLeq(a, b) ==
    IF a = <<>> THEN TRUE
    ELSE IF b = <<>> THEN FALSE
    ELSE IF Head(a) # Head(b) THEN Head(a) < Head(b)
    ELSE StrLeq(Tail(a), Tail(b))

RECURSIVE InsertSorted(_, _)
InsertSorted(s, x) ==
    IF s = <<>> THEN <<x>>
    ELSE IF StrLeq(x, Head(s)) THEN <<x>> \o s
    ELSE <<Head(s)>> \o InsertSorted(Tail(s), x)

RECURSIVE SortInputs(_)
SortInputs(s) == IF s = <<>> THEN <<>> ELSE InsertSorted(SortInputs(Tail(s)), Head(s))

\* join(',')
RECURSIVE Join(_)
Join(s) ==
    IF s = <<>> THEN <<>>
    ELSE IF Len(s) = 1 THEN Head(s)
    ELSE Head(s) \o <<44>> \o Join(Tail(s))

\* the input keys of an unsigned transaction in the order of its inputs
InputKeys(ins) == [i \in DOMAIN ins |-> InputKey(ins[i])]

\* a key that keeps the inputs in the order the transaction lists them
TxInputsKeyUnsorted(psbt) == Join(InputKeys(psbt.tx.ins))

\* txInputs.map(...).sort().join(','), worked out once for each input list in use
SortedKey == [ins \in {TxList[i].ins : i \in 1..Len(TxList)} |-> Join(SortInputs(InputKeys(ins)))]

TxInputsKey(psbt) == SortedKey[psbt.tx.ins]

\* finalizePsbt: finalizeAllInputs succeeds when every input carries at least
\* m partial signatures of its witness script; extractTransaction gives the txid
FinalizeSucceeds(psbt) ==
    /\ psbt.inputs # <<>>
    /\ \A i \in DOMAIN psbt.inputs :
          Cardinality(psbt.inputs[i].partialSig) >= psbt.inputs[i].witnessScript.m

\* a finalizer that lets every PSBT through, short of signatures or not
finalizePsbtAlways(psbt) == [success |-> TRUE, txid |-> TxId(psbt.tx)]

finalizePsbt(psbt) ==
    IF FinalizeSucceeds(psbt)
    THEN [success |-> TRUE, txid |-> TxId(psbt.tx)]
    ELSE [success |-> FALSE, txid |-> 0]

\* ------------------------------------------------------------ status values
ConfirmedName == <<"confirmed_1", "confirmed_2", "confirmed_3", "confirmed_4", "confirmed_5">>

\* the status pollConfirmations / checkIfAlreadyBroadcast / executeBroadcast derive from a depth
\* a status that names depth 6 confirmed_6, which the server accepts, and never final
StatusOfDepthNoFinal(confs) ==
    IF confs = 0 THEN "broadcast"
    ELSE IF confs >= FINALITY THEN "confirmed_6"
    ELSE ConfirmedName[confs]

StatusOfDepth(confs) ==
    IF confs = 0 THEN "broadcast"
    ELSE IF confs >= FINALITY THEN "final"
    ELSE ConfirmedName[confs]

validStatuses == {"broadcast", "confirmed_1", "confirmed_2", "confirmed_3",
                  "confirmed_4", "confirmed_5", "confirmed_6", "final"}

\* a tracking test that forgets the confirmed_k statuses
IsTrackedBroadcastOnly(status) == status = "broadcast"

IsTracked(status) == status \in validStatuses \ {"final"}

\* ------------------------------------------------------------ server: database
\* getSessionId: the session a request without a session id falls into, and the one a page
\* starts in
PublicSession == "0"

\* a status that is set once and never computed again
StatusKeptPending(signaturesCount, mRequired) == "pending"

\* psbtOperations.create / update: the status is computed from the supplied count
StatusForCount(signaturesCount, mRequired) ==
    IF signaturesCount >= mRequired THEN "ready" ELSE "pending"

DbCreate(db, id, psbtData, mRequired, nTotal, signaturesCount, sessionId) ==
    [i \in DOMAIN db \cup {id} |->
        IF i = id
        THEN [id |-> id, psbt_data |-> psbtData, m_required |-> mRequired,
              n_total |-> nTotal, signatures_count |-> signaturesCount,
              status |-> StatusForCount(signaturesCount, mRequired),
              txid |-> 0, confirmations |-> 0, session_id |-> sessionId]
        ELSE db[i]]

DbUpdate(db, id, psbtData, signaturesCount) ==
    [db EXCEPT ![id].psbt_data = psbtData,
               ![id].signatures_count = signaturesCount,
               ![id].status = StatusForCount(signaturesCount, db[id].m_required)]

DbUpdateBroadcastStatus(db, id, txid, status, confirmations) ==
    IF id \in DOMAIN db
    THEN [db EXCEPT ![id].txid = txid, ![id].status = status,
                    ![id].confirmations = confirmations]
    ELSE db

\* a DELETE without its WHERE clause
DbDeleteAll(db, id) == <<>>

DbDelete(db, id) == [i \in DOMAIN db \ {id} |-> db[i]]

\* ------------------------------------------------------------ server: routes
\* a validation that rejects nothing
PostAccepted(body) == FALSE

\* POST /api/psbts
PostRejected(body) ==
    \/ body.m_required = 0
    \/ body.n_total = 0
    \/ body.m_required > body.n_total

\* PATCH /api/psbts/:id/broadcast: [ok, db]
PatchBroadcast(db, id, txid, status, confirmations) ==
    IF txid = 0 \/ status \notin validStatuses
    THEN [ok |-> FALSE, db |-> db]
    ELSE [ok |-> id \in DOMAIN db,
          db |-> DbUpdateBroadcastStatus(db, id, txid, status, confirmations)]

\* ------------------------------------------------------------ state
VARIABLES
    psbts,      \* server: the psbts table, id -> row
    nextId,     \* server: the next AUTOINCREMENT id
    allPsbts,   \* client: the list loaded by loadPsbts, id -> row as loaded
    op,         \* client: the upload / add-signature handler in flight
    chains,     \* client: the pollConfirmations / checkIfAlreadyBroadcast chains alive
    bt,         \* client: broadcastTransaction in flight
    eb,         \* client: executeBroadcast in flight
    modal,      \* client: the broadcast modal and the record it captured
    txHeight,   \* network: txid -> -1 unknown, 0 in the mempool, h > 0 block height
    tip,        \* network: the chain tip height
    submitted,  \* network: the raw transactions the broadcast endpoints received
    xpubs,            \* server: the xpubs table, id -> row
    descriptors,      \* server: the descriptors table, id -> row
    sqlite_sequence,  \* server: the last AUTOINCREMENT id of the xpubs and descriptors tables
    response,         \* server: the response to the last request
    currentSessionId, \* client: the session the page sends with its requests
    allXpubs,         \* client: the key list loaded by loadXpubs, newest first
    selectedXpubIds,  \* client: the ids of the selected key cards
    mValue,           \* client: the M input
    nValue,           \* client: the N input
    addressIndex,     \* client: the address index input
    addressOutput,    \* client: what the address panel shows
    signerStatus      \* client: the signer list getSignatureInfo built last

\* the key registry, the descriptors and the address tab
keyVars == <<xpubs, descriptors, sqlite_sequence, response, currentSessionId, allXpubs,
             selectedXpubIds, mValue, nValue, addressIndex, addressOutput, signerStatus>>

vars == <<psbts, nextId, allPsbts, op, chains, bt, eb, modal, txHeight, tip, submitted, keyVars>>

\* the signature section of the details modal before any record was viewed
NoSigInfo == [signatures |-> 0, required |-> 0, total |-> 0, isComplete |-> FALSE]

IdleOp == [pc |-> "idle", kind |-> "none", id |-> 0, data |-> NoPsbt, count |-> 0,
           old |-> 0, body |-> NoPsbt, match |-> 0, noNew |-> FALSE, outcome |-> "none",
           sigInfo |-> NoSigInfo]

NoRow == [id |-> 0, psbt_data |-> NoPsbt, m_required |-> 0, n_total |-> 0,
          signatures_count |-> 0, status |-> "none", txid |-> 0, confirmations |-> 0,
          session_id |-> ""]

IdleBroadcast == [pc |-> "idle", id |-> 0, psbt_data |-> NoPsbt, txid |-> 0,
                  results |-> [e \in Endpoints |-> "none"], sent |-> [e \in Endpoints |-> 0],
                  indep |-> {}, patched |-> FALSE, outcome |-> "none"]

NoModal == [open |-> FALSE, row |-> NoRow, confirmDisabled |-> FALSE, result |-> FALSE]

\* nothing answered yet
NoResponse == [status |-> 0, body |-> <<>>]

\* the address panel before generateAddress ran
NoOutput == [className |-> "none", error |-> "", derived |-> 0, address |-> <<>>,
             script |-> <<>>, firstAddress |-> <<>>]

\* a page just loaded over an empty key registry: updateMNValues pinned N to 0 and M to 1
NoKeys ==
    /\ xpubs = <<>>
    /\ descriptors = <<>>
    /\ sqlite_sequence = [xpubs |-> 0, descriptors |-> 0]
    /\ response = NoResponse
    /\ currentSessionId = PublicSession
    /\ allXpubs = <<>>
    /\ selectedXpubIds = {}
    /\ mValue = 1
    /\ nValue = 0
    /\ addressIndex = 0
    /\ addressOutput = NoOutput
    /\ signerStatus = <<>>

\* ------------------------------------------------------------ client: pollers
PollChain(id, txid, cur, pc, new, reg) ==
    [kind |-> "poll", id |-> id, txid |-> txid, cur |-> cur, pc |-> pc, new |-> new, reg |-> reg]

AibChain(id, txid, pc, new) ==
    [kind |-> "aib", id |-> id, txid |-> txid, cur |-> 0, pc |-> pc, new |-> new, reg |-> FALSE]

\* the timer confirmationPollers holds for a record, if it has not fired yet
RegisteredTimers(chs, id) ==
    {ch \in chs : ch.kind = "poll" /\ ch.id = id /\ ch.pc = "timer" /\ ch.reg}

\* confirmationPollers.set(psbtId, timerId): the map now names this timer only
Unregister(chs, id) ==
    {IF ch.kind = "poll" /\ ch.id = id THEN [ch EXCEPT !.reg = FALSE] ELSE ch : ch \in chs}

\* startConfirmationTracking: clearTimeout of the registered timer, then pollConfirmations(id, txid, 0)
startConfirmationTracking(chs, id, txid) ==
    (chs \ RegisteredTimers(chs, id)) \cup {PollChain(id, txid, 0, "check", 0, FALSE)}

\* checkIfAlreadyBroadcast up to its first await: nothing when the PSBT does not finalize
checkIfAlreadyBroadcast(chs, row) ==
    IF finalizePsbt(row.psbt_data).success
    THEN chs \cup {AibChain(row.id, finalizePsbt(row.psbt_data).txid, "check", 0)}
    ELSE chs

TrackOne(chs, row) ==
    LET a == IF row.txid # 0 /\ IsTracked(row.status) /\ row.status # "final"
             THEN startConfirmationTracking(chs, row.id, row.txid)
             ELSE chs
    IN IF row.status = "ready" /\ row.txid = 0 THEN checkIfAlreadyBroadcast(a, row) ELSE a

RECURSIVE TrackAll(_, _, _)
TrackAll(chs, list, ids) ==
    IF ids = {} THEN chs
    ELSE LET i == CHOOSE x \in ids : \A y \in ids : y <= x
         IN TrackAll(TrackOne(chs, list[i]), list, ids \ {i})

\* initializeConfirmationTracking: allPsbts.forEach(...)
initializeConfirmationTracking(chs, list) == TrackAll(chs, list, DOMAIN list)

\* loadPsbts: GET /api/psbts, allPsbts = the answer, initializeConfirmationTracking()
LoadedList(db) == [i \in {j \in DOMAIN db : db[j].session_id = PublicSession} |-> db[i]]

\* the tasks of one page that are in flight or waiting on a timer stay within the bound
ChainsBounded(c) == Cardinality(chains'[c]) <= MaxChains

loadPsbts(c, db) ==
    /\ allPsbts' = [allPsbts EXCEPT ![c] = LoadedList(db)]
    /\ chains' = [chains EXCEPT ![c] = initializeConfirmationTracking(chains[c], LoadedList(db))]
    /\ ChainsBounded(c)

\* ------------------------------------------------------------ client: upload and merge
\* findMatchingPsbt: the first row of allPsbts (newest first) with the same sorted input list
findMatchingPsbt(list, newPsbt) ==
    LET ids == {i \in DOMAIN list : TxInputsKey(list[i].psbt_data) = TxInputsKey(newPsbt)}
    IN IF ids = {} THEN 0 ELSE CHOOSE i \in ids : \A j \in ids : j <= i

\* uploadPsbt up to its first request: the PUT of the merged PSBT or the POST of a new one
uploadPsbt(c, psbt) ==
    /\ op[c].pc = "idle"
    /\ LET m == findMatchingPsbt(allPsbts[c], psbt)
           existing == IF m # 0 THEN allPsbts[c][m].psbt_data ELSE NoPsbt
           throws == m # 0 /\ CombineThrows(existing, psbt)
           merged == IF m # 0 /\ ~throws THEN combine(existing, psbt) ELSE NoPsbt
           oldSigCount == countPsbtSignatures(existing)
           newSigCount == countPsbtSignatures(merged)
       IN IF m # 0 /\ ~throws /\ newSigCount > oldSigCount
          THEN op' = [op EXCEPT ![c] =
                       [pc |-> "put", kind |-> "upload", id |-> m, data |-> merged,
                        count |-> newSigCount, old |-> oldSigCount, body |-> psbt,
                        match |-> m, noNew |-> FALSE, outcome |-> "none",
                        sigInfo |-> NoSigInfo]]
          ELSE op' = [op EXCEPT ![c] =
                       [pc |-> "post", kind |-> "upload", id |-> 0, data |-> NoPsbt,
                        count |-> 0, old |-> oldSigCount, body |-> psbt,
                        match |-> m, noNew |-> (m # 0 /\ ~throws), outcome |-> "none",
                        sigInfo |-> NoSigInfo]]
    /\ UNCHANGED <<psbts, nextId, allPsbts, chains, bt, eb, modal, txHeight, tip, submitted, keyVars>>

Finished(o, outcome) ==
    [IdleOp EXCEPT !.kind = o.kind, !.match = o.match, !.noNew = o.noNew, !.outcome = outcome]

\* PUT /api/psbts/:id answered: merged and reloaded, or (404) on to the POST
uploadPutDone(c) ==
    /\ op[c].pc = "put" /\ op[c].kind = "upload"
    /\ IF op[c].id \in DOMAIN psbts
       THEN /\ psbts' = DbUpdate(psbts, op[c].id, op[c].data, op[c].count)
            /\ loadPsbts(c, psbts')
            /\ op' = [op EXCEPT ![c] = Finished(op[c], "merged")]
       ELSE /\ op' = [op EXCEPT ![c].pc = "post"]
            /\ UNCHANGED <<psbts, allPsbts, chains>>
    /\ UNCHANGED <<nextId, bt, eb, modal, txHeight, tip, submitted, keyVars>>

\* POST /api/psbts answered: the new row, then loadPsbts
uploadPostDone(c, limit) ==
    /\ op[c].pc = "post"
    /\ LET info == getSignatureInfo(op[c].body)
           body == [m_required |-> info.required, n_total |-> info.total]
       IN IF PostRejected(body)
          THEN /\ op' = [op EXCEPT ![c] = Finished(op[c], "error")]
               /\ UNCHANGED <<psbts, nextId, allPsbts, chains>>
          ELSE /\ nextId <= limit
               /\ psbts' = DbCreate(psbts, nextId, op[c].body, info.required, info.total,
                                    info.signatures, PublicSession)
               /\ nextId' = nextId + 1
               /\ loadPsbts(c, psbts')
               /\ op' = [op EXCEPT ![c] = Finished(op[c], "uploaded")]
    /\ UNCHANGED <<bt, eb, modal, txHeight, tip, submitted, keyVars>>

\* updatePsbtSignatures (current client): GET the row, combine, PUT
updatePsbtSignatures(c, id, psbt) ==
    /\ op[c].pc = "idle"
    /\ id \in DOMAIN allPsbts[c]
    /\ op' = [op EXCEPT ![c] = [IdleOp EXCEPT !.pc = "get", !.kind = "update",
                                              !.id = id, !.body = psbt]]
    /\ UNCHANGED <<psbts, nextId, allPsbts, chains, bt, eb, modal, txHeight, tip, submitted, keyVars>>

updateGetDone(c) ==
    /\ op[c].pc = "get"
    /\ IF op[c].id \in DOMAIN psbts
       THEN LET existing == psbts[op[c].id]
                combined == IF CombineThrows(existing.psbt_data, op[c].body)
                            THEN op[c].body
                            ELSE combine(existing.psbt_data, op[c].body)
            IN op' = [op EXCEPT ![c].pc = "put", ![c].data = combined,
                                ![c].count = countPsbtSignatures(combined),
                                ![c].old = existing.signatures_count]
       ELSE op' = [op EXCEPT ![c] = Finished(op[c], "error")]
    /\ UNCHANGED <<psbts, nextId, allPsbts, chains, bt, eb, modal, txHeight, tip, submitted, keyVars>>

\* updatePsbtSignatures (first client version): PUT the pasted PSBT as it is
updatePsbtSignaturesV1(c, id, psbt) ==
    /\ op[c].pc = "idle"
    /\ id \in DOMAIN allPsbts[c]
    /\ op' = [op EXCEPT ![c] = [IdleOp EXCEPT !.pc = "put", !.kind = "update", !.id = id,
                                              !.data = psbt,
                                              !.count = countPsbtSignatures(psbt)]]
    /\ UNCHANGED <<psbts, nextId, allPsbts, chains, bt, eb, modal, txHeight, tip, submitted, keyVars>>

updatePutDone(c) ==
    /\ op[c].pc = "put" /\ op[c].kind = "update"
    /\ IF op[c].id \in DOMAIN psbts
       THEN /\ psbts' = DbUpdate(psbts, op[c].id, op[c].data, op[c].count)
            /\ loadPsbts(c, psbts')
            /\ op' = [op EXCEPT ![c] = Finished(op[c], "updated")]
       ELSE /\ op' = [op EXCEPT ![c] = Finished(op[c], "error")]
            /\ UNCHANGED <<psbts, allPsbts, chains>>
    /\ UNCHANGED <<nextId, bt, eb, modal, txHeight, tip, submitted, keyVars>>

\* deletePsbt: DELETE /api/psbts/:id, then loadPsbts when the row existed
deletePsbt(c, id) ==
    /\ id \in DOMAIN allPsbts[c]
    /\ id \in DOMAIN psbts
    /\ psbts' = DbDelete(psbts, id)
    /\ loadPsbts(c, psbts')
    /\ UNCHANGED <<nextId, op, bt, eb, modal, txHeight, tip, submitted, keyVars>>

\* viewPsbtDetails: GET /api/psbts/:id, parsePsbtDetails, then the details modal with the
\* signature section getSignatureInfo gave; a toast when the row is gone
viewPsbtDetails(c, id) ==
    /\ op[c].pc = "idle"
    /\ id \in DOMAIN allPsbts[c]
    /\ op' = [op EXCEPT ![c] =
                IF id \in DOMAIN psbts
                THEN [IdleOp EXCEPT !.kind = "view", !.id = id, !.outcome = "shown",
                                    !.sigInfo = getSignatureInfo(psbts[id].psbt_data)]
                ELSE [IdleOp EXCEPT !.kind = "view", !.id = id, !.outcome = "error"]]
    /\ UNCHANGED <<psbts, nextId, allPsbts, chains, bt, eb, modal, txHeight, tip, submitted, keyVars>>

\* reloadAllData (the session buttons): loadPsbts on its own
reloadAllData(c) ==
    /\ loadPsbts(c, psbts)
    /\ UNCHANGED <<psbts, nextId, op, bt, eb, modal, txHeight, tip, submitted, keyVars>>

\* ------------------------------------------------------------ network
known(t) == txHeight[t] >= 0
confirmed(t) == txHeight[t] > 0

\* what one explorer answers: the transaction lookup, then the tip height
Answers == {"ok", "notok", "throw"}
Responses == [tx : Answers, height : Answers]

\* one explorer's branch of checkConfirmations: "next" means fall through to the next one
ExplorerCheck(t, r) ==
    IF r.tx = "throw" THEN "null"
    ELSE IF r.tx = "ok" /\ known(t)
    THEN IF confirmed(t)
         THEN IF r.height = "throw" THEN "null"
              ELSE IF r.height = "ok" THEN "depth"
              ELSE "zero"
         ELSE "zero"
    ELSE "next"

\* checkConfirmations(txid): -1 is null (could not check), else the confirmations
checkConfirmations(t, blockstream, mempool) ==
    LET depth == Max(0, tip - txHeight[t] + 1)
        value(x) == IF x = "depth" THEN depth ELSE IF x = "zero" THEN 0 ELSE -1
        first == ExplorerCheck(t, blockstream)
    IN IF first # "next" THEN value(first) ELSE value(ExplorerCheck(t, mempool))

CheckResults(t) == {checkConfirmations(t, b, m) : b \in Responses, m \in Responses}

\* a block is mined while the chain is below the height limit; it may include
\* transactions waiting in the mempool
MineUpTo(included, limit) ==
    /\ tip < limit
    /\ included \subseteq {t \in DOMAIN txHeight : txHeight[t] = 0}
    /\ tip' = tip + 1
    /\ txHeight' = [t \in DOMAIN txHeight |-> IF t \in included THEN tip + 1 ELSE txHeight[t]]
    /\ UNCHANGED <<psbts, nextId, allPsbts, op, chains, bt, eb, modal, submitted, keyVars>>

Mine(included) == MineUpTo(included, MaxTip)

\* a participant broadcasts a fully signed stored transaction outside this system
ExternalBroadcast(id) ==
    /\ id \in DOMAIN psbts
    /\ finalizePsbt(psbts[id].psbt_data).success
    /\ ~known(TxId(psbts[id].psbt_data.tx))
    /\ txHeight' = [txHeight EXCEPT ![TxId(psbts[id].psbt_data.tx)] = 0]
    /\ UNCHANGED <<psbts, nextId, allPsbts, op, chains, bt, eb, modal, tip, submitted, keyVars>>

\* ------------------------------------------------------------ client: confirmation polling
\* pollConfirmations after checkConfirmations answered
pollCheckDone(c, ch, res) ==
    /\ ch \in chains[c] /\ ch.kind = "poll" /\ ch.pc = "check"
    /\ res \in CheckResults(ch.txid)
    /\ LET rest == chains[c] \ {ch}
       IN chains' = [chains EXCEPT ![c] =
            IF res = -1
            THEN Unregister(rest, ch.id) \cup {PollChain(ch.id, ch.txid, ch.cur, "timer", 0, TRUE)}
            ELSE IF res # ch.cur
            THEN rest \cup {PollChain(ch.id, ch.txid, ch.cur, "patch", res, FALSE)}
            ELSE IF res >= FINALITY
            THEN Unregister(rest, ch.id)
            ELSE Unregister(rest, ch.id) \cup {PollChain(ch.id, ch.txid, res, "timer", 0, TRUE)}]
    /\ UNCHANGED <<psbts, nextId, allPsbts, op, bt, eb, modal, txHeight, tip, submitted, keyVars>>

\* pollConfirmations after its PATCH answered: loadPsbts, then stop or schedule the next poll
pollPatchStep(c, ch) ==
    /\ ch \in chains[c] /\ ch.kind = "poll" /\ ch.pc = "patch"
    /\ psbts' = PatchBroadcast(psbts, ch.id, ch.txid, StatusOfDepth(ch.new), ch.new).db
    /\ allPsbts' = [allPsbts EXCEPT ![c] = LoadedList(psbts')]
    /\ LET loaded == initializeConfirmationTracking(chains[c] \ {ch}, LoadedList(psbts'))
       IN chains' = [chains EXCEPT ![c] =
            IF ch.new >= FINALITY
            THEN Unregister(loaded, ch.id)
            ELSE Unregister(loaded, ch.id) \cup {PollChain(ch.id, ch.txid, ch.new, "timer", 0, TRUE)}]
    /\ UNCHANGED <<nextId, op, bt, eb, modal, txHeight, tip, submitted, keyVars>>

pollPatchDone(c, ch) == pollPatchStep(c, ch) /\ ChainsBounded(c)

\* the timer of a chain fires: pollConfirmations(psbtId, txid, cur)
pollTimerFire(c, ch) ==
    /\ ch \in chains[c] /\ ch.kind = "poll" /\ ch.pc = "timer"
    /\ chains' = [chains EXCEPT ![c] =
                    (chains[c] \ {ch}) \cup {PollChain(ch.id, ch.txid, ch.cur, "check", 0, FALSE)}]
    /\ UNCHANGED <<psbts, nextId, allPsbts, op, bt, eb, modal, txHeight, tip, submitted, keyVars>>

\* checkIfAlreadyBroadcast after checkConfirmations answered
aibCheckDone(c, ch, res) ==
    /\ ch \in chains[c] /\ ch.kind = "aib" /\ ch.pc = "check"
    /\ res \in CheckResults(ch.txid)
    /\ chains' = [chains EXCEPT ![c] =
                    IF res = -1 THEN chains[c] \ {ch}
                    ELSE (chains[c] \ {ch}) \cup {AibChain(ch.id, ch.txid, "patch", res)}]
    /\ UNCHANGED <<psbts, nextId, allPsbts, op, bt, eb, modal, txHeight, tip, submitted, keyVars>>

\* checkIfAlreadyBroadcast after its PATCH answered: on success loadPsbts is scheduled
aibPatchDone(c, ch) ==
    /\ ch \in chains[c] /\ ch.kind = "aib" /\ ch.pc = "patch"
    /\ LET r == PatchBroadcast(psbts, ch.id, ch.txid, StatusOfDepth(ch.new), ch.new)
       IN /\ psbts' = r.db
          /\ chains' = [chains EXCEPT ![c] =
                          IF r.ok THEN (chains[c] \ {ch}) \cup {AibChain(ch.id, ch.txid, "reload", ch.new)}
                          ELSE chains[c] \ {ch}]
    /\ UNCHANGED <<nextId, allPsbts, op, bt, eb, modal, txHeight, tip, submitted, keyVars>>

aibReload(c, ch) ==
    /\ ch \in chains[c] /\ ch.kind = "aib" /\ ch.pc = "reload"
    /\ allPsbts' = [allPsbts EXCEPT ![c] = LoadedList(psbts)]
    /\ chains' = [chains EXCEPT ![c] =
                    initializeConfirmationTracking(chains[c] \ {ch}, LoadedList(psbts))]
    /\ ChainsBounded(c)
    /\ UNCHANGED <<psbts, nextId, op, bt, eb, modal, txHeight, tip, submitted, keyVars>>

\* ------------------------------------------------------------ client: broadcast
AllAnswered(results) == \A e \in Endpoints : results[e] \in {"ok", "already", "rejected"}

\* a count of successes that takes an already-broadcast rejection for an acceptance
successfulBroadcastsLoose(results) == {e \in Endpoints : results[e] \in {"ok", "already"}}

\* broadcastResults.filter(r => r.success)
successfulBroadcasts(results) == {e \in Endpoints : results[e] = "ok"}

\* failedBroadcasts.some(r => alreadyBroadcastErrors.some(...))
isAlreadyBroadcast(results) == \E e \in Endpoints : results[e] = "already"

\* BROADCAST_ENDPOINTS.map(endpoint => broadcastToEndpoint(endpoint, txHex))
Submit(o, row, txid) ==
    [o EXCEPT !.pc = "broadcast", !.id = row.id, !.psbt_data = row.psbt_data, !.txid = txid,
              !.results = [e \in Endpoints |-> "pending"],
              !.sent = [e \in Endpoints |-> 1],
              !.indep = {}, !.patched = FALSE, !.outcome = "none"]

Submissions(row) == {[endpoint |-> e, psbt_data |-> row.psbt_data] : e \in Endpoints}

Ended(o, outcome) ==
    [IdleBroadcast EXCEPT !.results = o.results, !.sent = o.sent, !.indep = o.indep,
                          !.patched = o.patched, !.outcome = outcome]

\* a broadcast endpoint answers: accepted (the transaction enters the mempool), rejected
\* because it is already known, or rejected for another reason
EndpointAnswer(o, e, res) ==
    /\ o.pc = "broadcast" /\ o.results[e] = "pending"
    /\ res \in {"ok", "already", "rejected"}
    /\ res = "ok" => ~confirmed(o.txid)
    /\ res = "already" => known(o.txid)
    /\ txHeight' = IF res = "ok" /\ ~known(o.txid) THEN [txHeight EXCEPT ![o.txid] = 0]
                   ELSE txHeight

\* verifyOnEndpoint over VERIFY_ENDPOINTS: the endpoints counted as independent confirmations
IndependentConfirmations(seen, broadcastedTo) ==
    {v \in VerifyEndpoints : v \notin broadcastedTo /\ v \in seen}

\* broadcastTransaction(psbtId): the Broadcast button of a ready row without txid
broadcastTransaction(c, id) ==
    /\ id \in DOMAIN allPsbts[c]
    /\ allPsbts[c][id].status = "ready" /\ allPsbts[c][id].txid = 0
    /\ ~modal[c].open
    /\ bt[c].pc = "idle"
    /\ modal' = [modal EXCEPT ![c] = [NoModal EXCEPT !.open = TRUE, !.row = allPsbts[c][id]]]
    /\ LET row == allPsbts[c][id]
           fin == finalizePsbt(row.psbt_data)
       IN IF fin.success
          THEN /\ bt' = [bt EXCEPT ![c] = Submit(IdleBroadcast, row, fin.txid)]
               /\ submitted' = submitted \cup Submissions(row)
          ELSE /\ bt' = [bt EXCEPT ![c] = Ended(IdleBroadcast, "finalize_failed")]
               /\ UNCHANGED submitted
    /\ UNCHANGED <<psbts, nextId, allPsbts, op, chains, eb, txHeight, tip, keyVars>>

btEndpointAnswer(c, e, res) ==
    /\ EndpointAnswer(bt[c], e, res)
    /\ bt' = [bt EXCEPT ![c].results[e] = res]
    /\ UNCHANGED <<psbts, nextId, allPsbts, op, chains, eb, modal, tip, submitted, keyVars>>

\* broadcastTransaction after Promise.all(broadcastPromises)
btBroadcastDone(c) ==
    /\ bt[c].pc = "broadcast" /\ AllAnswered(bt[c].results)
    /\ IF successfulBroadcasts(bt[c].results) = {}
       THEN /\ bt' = [bt EXCEPT ![c] = Ended(bt[c], "failed")]
            /\ modal' = [modal EXCEPT ![c].result = modal[c].open]
       ELSE /\ bt' = [bt EXCEPT ![c].pc = "verify"]
            /\ UNCHANGED modal
    /\ UNCHANGED <<psbts, nextId, allPsbts, op, chains, eb, txHeight, tip, submitted, keyVars>>

\* broadcastTransaction after the verification round: the result is shown, the PATCH sent
btVerifyDone(c, seen) ==
    /\ bt[c].pc = "verify"
    /\ seen \subseteq VerifyEndpoints
    /\ bt' = [bt EXCEPT ![c].pc = "patch",
                        ![c].indep = IndependentConfirmations(seen, successfulBroadcasts(bt[c].results))]
    /\ modal' = [modal EXCEPT ![c].result = modal[c].open]
    /\ UNCHANGED <<psbts, nextId, allPsbts, op, chains, eb, txHeight, tip, submitted, keyVars>>

\* updatePsbtBroadcastStatus: PATCH answered, loadPsbts, startConfirmationTracking
updatePsbtBroadcastStatus(c, id, txid) ==
    /\ psbts' = PatchBroadcast(psbts, id, txid, "broadcast", 0).db
    /\ allPsbts' = [allPsbts EXCEPT ![c] = LoadedList(psbts')]
    /\ chains' = [chains EXCEPT ![c] =
                    startConfirmationTracking(
                        initializeConfirmationTracking(chains[c], LoadedList(psbts')), id, txid)]
    /\ ChainsBounded(c)

btPatchDone(c) ==
    /\ bt[c].pc = "patch"
    /\ updatePsbtBroadcastStatus(c, bt[c].id, bt[c].txid)
    /\ bt' = [bt EXCEPT ![c] = Ended([bt[c] EXCEPT !.patched = TRUE],
                                     IF bt[c].indep # {} THEN "confirmed" ELSE "accepted")]
    /\ UNCHANGED <<nextId, op, eb, modal, txHeight, tip, submitted, keyVars>>

\* the modal's Cancel button (or a click on the overlay) before Broadcast Now was pressed
modalCancel(c) ==
    /\ modal[c].open /\ ~modal[c].confirmDisabled
    /\ modal' = [modal EXCEPT ![c] = NoModal]
    /\ UNCHANGED <<psbts, nextId, allPsbts, op, chains, bt, eb, txHeight, tip, submitted, keyVars>>

\* closeBroadcastModal: the Close button of a shown result
closeBroadcastModal(c) ==
    /\ modal[c].open /\ modal[c].result
    /\ modal' = [modal EXCEPT ![c] = NoModal]
    /\ UNCHANGED <<psbts, nextId, allPsbts, op, chains, bt, eb, txHeight, tip, submitted, keyVars>>

\* Broadcast Now: executeBroadcast(psbtData, modal) up to Promise.all(broadcastPromises)
executeBroadcast(c) ==
    /\ modal[c].open /\ ~modal[c].confirmDisabled
    /\ eb[c].pc = "idle"
    /\ LET row == modal[c].row
           fin == finalizePsbt(row.psbt_data)
       IN IF fin.success
          THEN /\ eb' = [eb EXCEPT ![c] = Submit(IdleBroadcast, row, fin.txid)]
               /\ submitted' = submitted \cup Submissions(row)
               /\ modal' = [modal EXCEPT ![c].confirmDisabled = TRUE]
          ELSE /\ eb' = [eb EXCEPT ![c] = Ended(IdleBroadcast, "finalize_failed")]
               /\ modal' = [modal EXCEPT ![c].confirmDisabled = TRUE, ![c].result = TRUE]
               /\ UNCHANGED submitted
    /\ UNCHANGED <<psbts, nextId, allPsbts, op, chains, bt, txHeight, tip, keyVars>>

ebEndpointAnswer(c, e, res) ==
    /\ EndpointAnswer(eb[c], e, res)
    /\ eb' = [eb EXCEPT ![c].results[e] = res]
    /\ UNCHANGED <<psbts, nextId, allPsbts, op, chains, bt, modal, tip, submitted, keyVars>>

\* executeBroadcast after Promise.all(broadcastPromises)
ebBroadcastDone(c) ==
    /\ eb[c].pc = "broadcast" /\ AllAnswered(eb[c].results)
    /\ IF successfulBroadcasts(eb[c].results) = {}
       THEN IF isAlreadyBroadcast(eb[c].results)
            THEN /\ eb' = [eb EXCEPT ![c].pc = "check"]
                 /\ UNCHANGED modal
            ELSE /\ eb' = [eb EXCEPT ![c] = Ended(eb[c], "failed")]
                 /\ modal' = [modal EXCEPT ![c].result = modal[c].open]
       ELSE /\ eb' = [eb EXCEPT ![c].pc = "verify"]
            /\ UNCHANGED modal
    /\ UNCHANGED <<psbts, nextId, allPsbts, op, chains, bt, txHeight, tip, submitted, keyVars>>

\* executeBroadcast, already broadcast: checkConfirmations answered, the PATCH is sent either way
ebCheckDone(c, res) ==
    /\ eb[c].pc = "check"
    /\ res \in CheckResults(eb[c].txid)
    /\ eb' = [eb EXCEPT ![c].pc = "patch",
                        ![c].outcome = IF res = -1 THEN "unverified" ELSE "found"]
    /\ modal' = [modal EXCEPT ![c].result = modal[c].open]
    /\ UNCHANGED <<psbts, nextId, allPsbts, op, chains, bt, txHeight, tip, submitted, keyVars>>

ebVerifyDone(c, seen) ==
    /\ eb[c].pc = "verify"
    /\ seen \subseteq VerifyEndpoints
    /\ eb' = [eb EXCEPT ![c].pc = "patch",
                        ![c].indep = IndependentConfirmations(seen, successfulBroadcasts(eb[c].results)),
                        ![c].outcome = IF IndependentConfirmations(seen, successfulBroadcasts(eb[c].results)) # {}
                                       THEN "confirmed" ELSE "accepted"]
    /\ modal' = [modal EXCEPT ![c].result = modal[c].open]
    /\ UNCHANGED <<psbts, nextId, allPsbts, op, chains, bt, txHeight, tip, submitted, keyVars>>

ebPatchDone(c) ==
    /\ eb[c].pc = "patch"
    /\ updatePsbtBroadcastStatus(c, eb[c].id, eb[c].txid)
    /\ eb' = [eb EXCEPT ![c] = Ended([eb[c] EXCEPT !.patched = TRUE], eb[c].outcome)]
    /\ UNCHANGED <<nextId, op, bt, modal, txHeight, tip, submitted, keyVars>>

\* ------------------------------------------------------------ specifications
Init ==
    /\ psbts = <<>>
    /\ nextId = 1
    /\ allPsbts = [c \in Clients |-> <<>>]
    /\ op = [c \in Clients |-> IdleOp]
    /\ chains = [c \in Clients |-> {}]
    /\ bt = [c \in Clients |-> IdleBroadcast]
    /\ eb = [c \in Clients |-> IdleBroadcast]
    /\ modal = [c \in Clients |-> NoModal]
    /\ txHeight = [t \in 1..Len(TxList) |-> -1]
    /\ tip = 0
    /\ submitted = {}
    /\ NoKeys

\* the PSBT files the participants hold: tx with the keys of S on every input
SignedBy(tx, S) == Psbt(tx, [i \in 1..Len(tx.ins) |-> S])

\* two browsers on one record: the unsigned transaction, each cosigner's copy, another transaction
SignUploads ==
    {SignedBy(TxMain, {})} \cup {SignedBy(TxMain, {k}) : k \in Keys} \cup {SignedBy(TxOther, {1})}

NextSign ==
    \E c \in Clients :
        \/ \E p \in SignUploads : uploadPsbt(c, p)
        \/ uploadPutDone(c)
        \/ uploadPostDone(c, MaxShared)
        \/ \E p \in SignUploads, id \in 1..MaxRecords : updatePsbtSignatures(c, id, p)
        \/ updateGetDone(c)
        \/ \E p \in SignUploads, id \in 1..MaxRecords : updatePsbtSignaturesV1(c, id, p)
        \/ updatePutDone(c)
        \/ \E id \in 1..MaxRecords : deletePsbt(c, id)
        \/ reloadAllData(c)

SpecSign == Init /\ [][NextSign]_vars

\* one browser, uploads and broadcasts: the modal, both broadcast paths and the endpoints
BroadcastUploads == {SignedBy(TxMain, {1}), Psbt(TxMain, <<Keys, {NumKeys}>>)}

NextBroadcast ==
    \/ \E p \in BroadcastUploads : uploadPsbt(1, p)
    \/ uploadPutDone(1)
    \/ uploadPostDone(1, MaxShared)
    \/ reloadAllData(1)
    \/ \E id \in 1..MaxShared : broadcastTransaction(1, id)
    \/ \E e \in Endpoints, res \in {"ok", "already", "rejected"} : btEndpointAnswer(1, e, res)
    \/ btBroadcastDone(1)
    \/ \E seen \in SUBSET VerifyEndpoints : btVerifyDone(1, seen)
    \/ btPatchDone(1)
    \/ modalCancel(1)
    \/ closeBroadcastModal(1)
    \/ executeBroadcast(1)
    \/ \E e \in Endpoints, res \in {"ok", "already", "rejected"} : ebEndpointAnswer(1, e, res)
    \/ ebBroadcastDone(1)
    \/ \E res \in -1..MaxTip : ebCheckDone(1, res)
    \/ \E seen \in SUBSET VerifyEndpoints : ebVerifyDone(1, seen)
    \/ ebPatchDone(1)
    \/ \E id \in 1..MaxShared : ExternalBroadcast(id)

SpecBroadcast == Init /\ [][NextBroadcast]_vars

\* the same browser with every request answered in the end but those to Blockstream's
\* broadcast endpoint: the page's continuations run once what they await has arrived
Responsive == Endpoints \ {"Blockstream"}

BtProgress ==
    \/ \E e \in Responsive, res \in {"ok", "already", "rejected"} : btEndpointAnswer(1, e, res)
    \/ btBroadcastDone(1)
    \/ \E seen \in SUBSET VerifyEndpoints : btVerifyDone(1, seen)
    \/ btPatchDone(1)

EbProgress ==
    \/ \E e \in Responsive, res \in {"ok", "already", "rejected"} : ebEndpointAnswer(1, e, res)
    \/ ebBroadcastDone(1)
    \/ \E res \in -1..MaxTip : ebCheckDone(1, res)
    \/ \E seen \in SUBSET VerifyEndpoints : ebVerifyDone(1, seen)
    \/ ebPatchDone(1)

UploadProgress == uploadPutDone(1) \/ uploadPostDone(1, MaxShared)

SpecHang ==
    /\ Init /\ [][NextBroadcast]_vars
    /\ WF_vars(BtProgress) /\ WF_vars(EbProgress) /\ WF_vars(UploadProgress)

\* one browser, uploads and confirmation tracking: a cosigner broadcasts outside the
\* system, blocks are mined, the page discovers the transaction and polls its depth
PollUploads == {SignedBy(TxOther, {k}) : k \in Keys}

NextPoll ==
    \/ \E p \in PollUploads : uploadPsbt(1, p)
    \/ uploadPutDone(1)
    \/ uploadPostDone(1, MaxShared)
    \/ \E id \in 1..MaxShared : deletePsbt(1, id)
    \/ reloadAllData(1)
    \/ \E ch \in chains[1], res \in -1..MaxTip : pollCheckDone(1, ch, res)
    \/ \E ch \in chains[1] : pollPatchDone(1, ch)
    \/ \E ch \in chains[1] : pollTimerFire(1, ch)
    \/ \E ch \in chains[1], res \in -1..MaxTip : aibCheckDone(1, ch, res)
    \/ \E ch \in chains[1] : aibPatchDone(1, ch)
    \/ \E ch \in chains[1] : aibReload(1, ch)
    \/ \E inc \in SUBSET (1..Len(TxList)) : Mine(inc)
    \/ \E id \in 1..MaxShared : ExternalBroadcast(id)

SpecPoll == Init /\ [][NextPoll]_vars

\* one browser that opens on a record broadcast earlier, its transaction one block short
\* of finality: blocks are mined up to finality, the page is loaded and reloaded, and the
\* polls run; once the transaction is final the explorers answer every lookup
FinalTip == FINALITY

\* the depth of a transaction the explorers know: 0 in the mempool, else blocks on top + 1
DepthNow(t) == IF confirmed(t) THEN Max(0, tip - txHeight[t] + 1) ELSE 0

\* what a confirmation check can return: any outcome before finality, the depth after it

Lookups(t) == IF DepthNow(t) >= FINALITY THEN {DepthNow(t)} ELSE CheckResults(t)

InitFinal ==
    /\ LET p == SignedBy(TxOther, {1})
           info == getSignatureInfo(p)
       IN psbts = DbUpdateBroadcastStatus(
                      DbCreate(<<>>, 1, p, info.required, info.total, info.signatures,
                               PublicSession),
                      1, TxId(TxOther), "broadcast", 0)
    /\ nextId = 2
    /\ allPsbts = [c \in Clients |-> <<>>]
    /\ op = [c \in Clients |-> IdleOp]
    /\ chains = [c \in Clients |-> {}]
    /\ bt = [c \in Clients |-> IdleBroadcast]
    /\ eb = [c \in Clients |-> IdleBroadcast]
    /\ modal = [c \in Clients |-> NoModal]
    /\ txHeight = [t \in 1..Len(TxList) |-> IF t = TxId(TxOther) THEN 1 ELSE -1]
    /\ tip = FinalTip - 1
    /\ submitted = {}
    /\ NoKeys

PollCheckAny == \E ch \in chains[1] : \E res \in Lookups(ch.txid) : pollCheckDone(1, ch, res)
PollPatchAny == \E ch \in chains[1] : pollPatchStep(1, ch)
PollTimerAny == \E ch \in chains[1] : pollTimerFire(1, ch)

NextFinal ==
    \/ reloadAllData(1)
    \/ PollCheckAny
    \/ PollPatchAny
    \/ PollTimerAny
    \/ MineUpTo({}, FinalTip)

SpecFinal ==
    /\ InitFinal /\ [][NextFinal]_vars
    /\ WF_vars(PollCheckAny) /\ WF_vars(PollPatchAny) /\ WF_vars(PollTimerAny)

\* one browser that opens on a stored record: uploads of PSBTs with every shape of
\* signer sets and input order, and the details view of the stored records
StoredSet ==
    {SignedBy(TxMain, {}), SignedBy(TxMain, {1}), Psbt(TxMain, <<{1}, {2}>>),
     SignedBy(TxSwap, {2}), SignedBy(TxOther, {})}

InspectSet ==
    StoredSet \cup {SignedBy(TxMain, {2}), SignedBy(TxMain, Keys), SignedBy(TxSwap, {1})}

InitInspect ==
    /\ \E p \in StoredSet :
          LET info == getSignatureInfo(p)
          IN psbts = DbCreate(<<>>, 1, p, info.required, info.total, info.signatures,
                              PublicSession)
    /\ nextId = 2
    /\ allPsbts = [c \in Clients |-> LoadedList(psbts)]
    /\ op = [c \in Clients |-> IdleOp]
    /\ chains = [c \in Clients |-> initializeConfirmationTracking({}, LoadedList(psbts))]
    /\ bt = [c \in Clients |-> IdleBroadcast]
    /\ eb = [c \in Clients |-> IdleBroadcast]
    /\ modal = [c \in Clients |-> NoModal]
    /\ txHeight = [t \in 1..Len(TxList) |-> -1]
    /\ tip = 0
    /\ submitted = {}
    /\ NoKeys

NextInspect ==
    \/ \E p \in InspectSet : uploadPsbt(1, p)
    \/ uploadPutDone(1)
    \/ uploadPostDone(1, MaxRecords)
    \/ \E id \in 1..MaxRecords : viewPsbtDetails(1, id)

SpecInspect == InitInspect /\ [][NextInspect]_vars

\* one browser, uploads only: the same transaction uploaded again, and a transaction that
\* spends the same outpoints to other outputs
UploadSet ==
    {SignedBy(TxMain, {k}) : k \in Keys} \cup {SignedBy(TxAlt, {1}), SignedBy(TxOther, {1})}

NextUpload ==
    \/ \E p \in UploadSet : uploadPsbt(1, p)
    \/ uploadPutDone(1)
    \/ uploadPostDone(1, MaxRecords)
    \/ \E id \in 1..MaxRecords : deletePsbt(1, id)
    \/ reloadAllData(1)

SpecUpload == Init /\ [][NextUpload]_vars

\* ------------------------------------------------------------ client: keys and addresses
\* the keys of the key tab: the large registry has one key more than a script of 15 keys
NumXpubs == 16
SmallKeys == 3

\* the address indices typed into the index input
AddressIndexes == {0, 1}

\* an extended public key as text: its prefix, the number of characters after it, and the
\* key it encodes
XpubText(prefix, key) == [prefix |-> prefix, chars |-> 107, key |-> key]

\* a field the request body leaves out
EmptyText == [prefix |-> "", chars |-> 0, key |-> 0]

\* the keys of the participants: key 0 is a zpub, which the server takes and
\* bip32.fromBase58 (bitcoin network) does not
KeyText(k) == XpubText(IF k = 0 THEN "zpub" ELSE "xpub", k)

\* bitcoin.bip32.fromBase58(xpubStr) returns a node
Decodes(x) == x.prefix = "xpub" /\ x.key \in 1..NumXpubs

\* node.derive(branch).derive(index).publicKey: a compressed key, the parity byte and then
\* the coordinate, different for every (key, branch, index)
publicKey(x, branch, index) ==
    LET c == x.key + 32 * (index + 128 * branch)
        coordinate == (c * 77) % 16384
    IN <<2 + ((c \div 3) % 2), coordinate \div 256, coordinate % 256>>

\* Buffer.compare: -1, 0 or 1 by the first byte that differs, a prefix first
RECURSIVE BufferCompare(_, _)
BufferCompare(a, b) ==
    IF a = <<>> /\ b = <<>> THEN 0
    ELSE IF a = <<>> THEN -1
    ELSE IF b = <<>> THEN 1
    ELSE IF Head(a) < Head(b) THEN -1
    ELSE IF Head(a) > Head(b) THEN 1
    ELSE BufferCompare(Tail(a), Tail(b))

RECURSIVE InsertBuffer(_, _)
InsertBuffer(s, x) ==
    IF s = <<>> THEN <<x>>
    ELSE IF BufferCompare(x, Head(s)) <= 0 THEN <<x>> \o s
    ELSE <<Head(s)>> \o InsertBuffer(Tail(s), x)

\* the public keys left in the order of the selected keys
KeepOrder(pubkeys) == pubkeys

\* pubkeys.slice().sort(Buffer.compare)
RECURSIVE SortBuffers(_)
SortBuffers(pubkeys) ==
    IF pubkeys = <<>> THEN <<>> ELSE InsertBuffer(SortBuffers(Tail(pubkeys)), Head(pubkeys))

\* bitcoin.payments.p2ms({m, pubkeys}).output: OP_m, the keys as given, OP_n, OP_CHECKMULTISIG
p2ms(m, pubkeys) == <<80 + m>> \o pubkeys \o <<80 + Len(pubkeys), 174>>

\* bitcoin.payments.p2wsh({redeem}).address: the bech32 text of the hash of the script
p2wsh(script) == [hrp |-> "bc", version |-> 0, program |-> <<"sha256", script>>]

\* the script both address functions build for the keys xs at an index
MultisigScript(m, xs, index) ==
    p2ms(m, SortBuffers([i \in DOMAIN xs |-> publicKey(xs[i], 0, index)]))

\* generateMultisigAddress: the address, or null (<<>>) when a key does not decode
generateMultisigAddress(m, xs, index) ==
    IF \E i \in DOMAIN xs : ~Decodes(xs[i])
    THEN <<>>
    ELSE p2wsh(MultisigScript(m, xs, index))

\* getSelectedXpubs: the selected keys in the order of allXpubs
RECURSIVE SelectedOf(_, _)
SelectedOf(list, ids) ==
    IF list = <<>> THEN <<>>
    ELSE IF Head(list).id \in ids THEN <<Head(list).xpub>> \o SelectedOf(Tail(list), ids)
    ELSE SelectedOf(Tail(list), ids)

getSelectedXpubs == SelectedOf(allXpubs, selectedXpubIds)

\* the address panel after an error was caught; derived: the keys derived before it
ErrorOutput(message, derived) ==
    [className |-> "output error", error |-> message, derived |-> derived,
     address |-> <<>>, script |-> <<>>, firstAddress |-> <<>>]

\* the keys generateAddress derived before the first one that does not decode
RECURSIVE DerivedBefore(_)
DerivedBefore(xs) ==
    IF xs = <<>> \/ ~Decodes(Head(xs)) THEN 0 ELSE 1 + DerivedBefore(Tail(xs))

\* generateAddress: the three checks, the derivation, the sorted script and its address;
\* displayAddressResult shows the address of index 0 next to the descriptor
generateAddress ==
    /\ LET selectedXpubs == getSelectedXpubs
           m == mValue
           n == nValue
           index == addressIndex
       IN addressOutput' =
            IF Len(selectedXpubs) # n THEN ErrorOutput("Please select exactly n xpubs", 0)
            ELSE IF m > n THEN ErrorOutput("M cannot be greater than N", 0)
            ELSE IF m < 1 \/ n < 2 THEN ErrorOutput("Invalid M-of-N values", 0)
            ELSE IF \E i \in DOMAIN selectedXpubs : ~Decodes(selectedXpubs[i])
            THEN ErrorOutput("Invalid xpub format", DerivedBefore(selectedXpubs))
            ELSE [className |-> "output", error |-> "", derived |-> Len(selectedXpubs),
                  address |-> p2wsh(MultisigScript(m, selectedXpubs, index)),
                  script |-> MultisigScript(m, selectedXpubs, index),
                  firstAddress |-> generateMultisigAddress(m, selectedXpubs, 0)]
    /\ UNCHANGED <<psbts, nextId, allPsbts, op, chains, bt, eb, modal, txHeight, tip,
                   submitted, signerStatus, xpubs, descriptors, sqlite_sequence, response,
                   currentSessionId, allXpubs, selectedXpubIds, mValue, nValue, addressIndex>>

\* updateMNValues: N pinned to the number of selected ids, M brought into 1..max(1, N)
updateMNValues(selected, m) ==
    [n |-> Cardinality(selected),
     m |-> IF Cardinality(selected) > 0
           THEN (IF m > Cardinality(selected) THEN Cardinality(selected)
                 ELSE IF m < 1 THEN 1 ELSE m)
           ELSE 1]

\* toggleXpubCard(id)
toggleXpubCard(id) ==
    /\ \E i \in DOMAIN allXpubs : allXpubs[i].id = id
    /\ selectedXpubIds' = IF id \in selectedXpubIds THEN selectedXpubIds \ {id}
                          ELSE selectedXpubIds \cup {id}
    /\ nValue' = updateMNValues(selectedXpubIds', mValue).n
    /\ mValue' = updateMNValues(selectedXpubIds', mValue).m
    /\ UNCHANGED <<psbts, nextId, allPsbts, op, chains, bt, eb, modal, txHeight, tip,
                   submitted, signerStatus, xpubs, descriptors, sqlite_sequence, response,
                   currentSessionId, allXpubs, addressIndex, addressOutput>>

\* the user types into the M input: its change handler clamps the value to 1..N (N > 0)
editM(v) ==
    /\ mValue' = LET m == IF v < 1 THEN 1 ELSE v
                 IN IF nValue > 0 /\ m > nValue THEN nValue ELSE m
    /\ UNCHANGED <<psbts, nextId, allPsbts, op, chains, bt, eb, modal, txHeight, tip,
                   submitted, signerStatus, xpubs, descriptors, sqlite_sequence, response,
                   currentSessionId, allXpubs, selectedXpubIds, nValue, addressIndex,
                   addressOutput>>

\* the user types into the N or the index input
editN(v) ==
    /\ nValue' = v
    /\ UNCHANGED <<psbts, nextId, allPsbts, op, chains, bt, eb, modal, txHeight, tip,
                   submitted, signerStatus, xpubs, descriptors, sqlite_sequence, response,
                   currentSessionId, allXpubs, selectedXpubIds, mValue, addressIndex,
                   addressOutput>>

editIndex(v) ==
    /\ addressIndex' = v
    /\ UNCHANGED <<psbts, nextId, allPsbts, op, chains, bt, eb, modal, txHeight, tip,
                   submitted, signerStatus, xpubs, descriptors, sqlite_sequence, response,
                   currentSessionId, allXpubs, selectedXpubIds, mValue, nValue,
                   addressOutput>>

\* matchPubkeyToXpub looks at the leaf indices below this one
SearchLimit == 100

\* the public keys in the first script of the PSBT whose details are shown: leaves of a
\* registered or an unregistered key, on a branch and at an index inside or outside the search
ScriptKeys ==
    {publicKey(KeyText(k), b, i) : k \in 1..SmallKeys, b \in 0..2,
                                   i \in {0, SearchLimit - 1, SearchLimit}}

\* a search that looks at the receive branch only
SearchReceiveOnly(x, target) ==
    LET hits == {i \in 0..SearchLimit - 1 : publicKey(x, 0, i) = target}
    IN IF hits = {} THEN <<>> ELSE <<0, CHOOSE i \in hits : \A j \in hits : i <= j>>

\* the loops over change 0..1 and index 0..99 of one key: the first path that derives the
\* target, <<>> when none does
SearchPath(x, target) ==
    LET hits == {p \in (0..1) \X (0..SearchLimit - 1) : publicKey(x, p[1], p[2]) = target}
    IN IF hits = {} THEN <<>>
       ELSE CHOOSE p \in hits :
               \A q \in hits : p[1] < q[1] \/ (p[1] = q[1] /\ p[2] <= q[2])

\* the searches of the small keys for the keys of the scripts, made once
PathTable == [k \in 1..SmallKeys |-> [t \in ScriptKeys |-> SearchPath(KeyText(k), t)]]

FirstPath(x, target) ==
    IF x.key \in 1..SmallKeys /\ x = KeyText(x.key) /\ target \in ScriptKeys
    THEN PathTable[x.key][target]
    ELSE SearchPath(x, target)

\* return null
NoMatch == [id |-> 0, label |-> "", xpub |-> EmptyText, derivationPath |-> <<>>]

\* the loop over allXpubs: a key that does not decode is skipped
RECURSIVE MatchFrom(_, _)
MatchFrom(list, target) ==
    IF list = <<>> THEN NoMatch
    ELSE IF Decodes(Head(list).xpub) /\ FirstPath(Head(list).xpub, target) # <<>>
    THEN [id |-> Head(list).id, label |-> Head(list).label, xpub |-> Head(list).xpub,
          derivationPath |-> FirstPath(Head(list).xpub, target)]
    ELSE MatchFrom(Tail(list), target)

matchPubkeyToXpub(targetPubkey) == MatchFrom(allXpubs, targetPubkey)

\* getSignatureInfo, the signer list: one entry for each public key of the first input's
\* script, with the label and the id of the registered key it was matched to
buildSignerStatus(pubkeys) ==
    /\ signerStatus' = [i \in DOMAIN pubkeys |->
                          LET matchedXpub == matchPubkeyToXpub(pubkeys[i])
                          IN [pubkey |-> pubkeys[i], matchedXpub |-> matchedXpub,
                              label |-> matchedXpub.label, xpubId |-> matchedXpub.id]]
    /\ UNCHANGED <<psbts, nextId, allPsbts, op, chains, bt, eb, modal, txHeight, tip,
                   submitted, xpubs, descriptors, sqlite_sequence, response,
                   currentSessionId, allXpubs, selectedXpubIds, mValue, nValue, addressIndex,
                   addressOutput>>

\* xpubOperations.create: the row of a new key
XpubRow(id, label, xpub, sessionId) ==
    [id |-> id, label |-> label, xpub |-> xpub, session_id |-> sessionId]

\* xpubOperations.getAll: the rows of a session, newest first
RECURSIVE NewestFirst(_, _)
NewestFirst(table, ids) ==
    IF ids = {} THEN <<>>
    ELSE LET i == CHOOSE x \in ids : \A y \in ids : y <= x
         IN <<table[i]>> \o NewestFirst(table, ids \ {i})

XpubsGetAll(table, sessionId) ==
    NewestFirst(table, {i \in DOMAIN table : table[i].session_id = sessionId})

\* the orders in which the participants may have registered their keys: two or three of
\* the small keys in any order, a zpub next to a key, or all NumXpubs keys
RegistrationOrders ==
    {<<a, b>> : a \in 1..SmallKeys, b \in 1..SmallKeys} \cup
    {<<a, b, c>> : a \in 1..SmallKeys, b \in 1..SmallKeys, c \in 1..SmallKeys}

Registrations ==
    {r \in RegistrationOrders : \A i, j \in DOMAIN r : i # j => r[i] # r[j]}
    \cup {<<1, 0>>, [i \in 1..NumXpubs |-> i]}

\* the key tab over a registry of the public session; every key of the large registry is
\* selected, none of a small one
InitAddress ==
    /\ psbts = <<>>
    /\ nextId = 1
    /\ allPsbts = [c \in Clients |-> <<>>]
    /\ op = [c \in Clients |-> IdleOp]
    /\ chains = [c \in Clients |-> {}]
    /\ bt = [c \in Clients |-> IdleBroadcast]
    /\ eb = [c \in Clients |-> IdleBroadcast]
    /\ modal = [c \in Clients |-> NoModal]
    /\ txHeight = [t \in 1..Len(TxList) |-> -1]
    /\ tip = 0
    /\ submitted = {}
    /\ \E r \in Registrations :
          xpubs = [i \in DOMAIN r |-> XpubRow(i, "Key", KeyText(r[i]), PublicSession)]
    /\ descriptors = <<>>
    /\ sqlite_sequence = [xpubs |-> Len(xpubs), descriptors |-> 0]
    /\ response = NoResponse
    /\ currentSessionId = PublicSession
    /\ allXpubs = XpubsGetAll(xpubs, currentSessionId)
    /\ selectedXpubIds = IF Len(xpubs) = NumXpubs THEN DOMAIN xpubs ELSE {}
    /\ nValue = updateMNValues(selectedXpubIds, 1).n
    /\ mValue = updateMNValues(selectedXpubIds, 1).m
    /\ addressIndex = 0
    /\ addressOutput = NoOutput
    /\ signerStatus = <<>>

\* the cards the user clicks and the values typed into the inputs
CardsClicked == 1..3
TypedM == 0..3
TypedN == {2, 3}

NextAddress ==
    \/ generateAddress
    \/ \E id \in CardsClicked : toggleXpubCard(id)
    \/ \E v \in TypedM : editM(v)
    \/ \E v \in TypedN : editN(v)
    \/ \E v \in AddressIndexes : editIndex(v)

SpecAddress == InitAddress /\ [][NextAddress]_vars

\* the scripts shown: of one key, or of the first key of participant 1 and another key
Scripts ==
    {<<a>> : a \in ScriptKeys} \cup {<<publicKey(KeyText(1), 0, 0), a>> : a \in ScriptKeys}

InitMatch == InitAddress /\ Len(xpubs) < NumXpubs

NextMatch ==
    \/ \E pubkeys \in Scripts : buildSignerStatus(pubkeys)

SpecMatch == InitMatch /\ [][NextMatch]_vars

\* ------------------------------------------------------------ server: the three routers
\* everything a browser page or the network holds: no route touches it
pageVars == <<allPsbts, op, chains, bt, eb, modal, txHeight, tip, submitted,
              currentSessionId, allXpubs, selectedXpubIds, mValue, nValue, addressIndex,
              addressOutput, signerStatus>>

\* the header taken as it is
headerOnly(header) == header

\* getSessionId(req): the X-Session-Id header, '0' when the request has none
getSessionId(header) == IF header = "" THEN PublicSession ELSE header

\* isValidXpub: xpub, ypub or zpub (either case of the first letter) and 70 to 120 more
\* base58 characters
isValidXpub(x) ==
    /\ x.prefix \in {"xpub", "ypub", "zpub", "Xpub", "Ypub", "Zpub"}
    /\ x.chars >= 70 /\ x.chars <= 120

\* the rows of a table that belong to a session, newest first
GetAll(table, sessionId) ==
    NewestFirst(table, {i \in DOMAIN table : table[i].session_id = sessionId})

Reply(status, body) == [status |-> status, body |-> body]

\* what operations.delete resolved to: this.changes > 0
Changes(changed) == <<[deleted |-> changed]>>

\* GET /api/xpubs
GET_xpubs(header) ==
    /\ response' = Reply(200, XpubsGetAll(xpubs, getSessionId(header)))
    /\ UNCHANGED <<psbts, nextId, xpubs, descriptors, sqlite_sequence, pageVars>>

\* a table without the constraint
NeverViolated(table, xpub, sessionId) == FALSE

\* UNIQUE(xpub, session_id)
UniqueViolated(table, xpub, sessionId) ==
    \E i \in DOMAIN table : table[i].xpub = xpub /\ table[i].session_id = sessionId

\* a table with one more row
Insert(table, id, row) == [i \in DOMAIN table \cup {id} |-> IF i = id THEN row ELSE table[i]]

\* POST /api/xpubs: 400 without label or key or for a key of another shape, 409 for a key
\* the session already has, 201 and the new row otherwise
POST_xpubs(header, body, limit) ==
    /\ IF body.label = "" \/ body.xpub = EmptyText \/ ~isValidXpub(body.xpub)
       THEN /\ response' = Reply(400, <<>>)
            /\ UNCHANGED <<xpubs, sqlite_sequence>>
       ELSE IF UniqueViolated(xpubs, body.xpub, getSessionId(header))
       THEN /\ response' = Reply(409, <<>>)
            /\ UNCHANGED <<xpubs, sqlite_sequence>>
       ELSE LET id == sqlite_sequence.xpubs + 1
                row == XpubRow(id, body.label, body.xpub, getSessionId(header))
            IN /\ id <= limit
               /\ xpubs' = Insert(xpubs, id, row)
               /\ sqlite_sequence' = [sqlite_sequence EXCEPT !.xpubs = id]
               /\ response' = Reply(201, <<row>>)
    /\ UNCHANGED <<psbts, nextId, descriptors, pageVars>>

\* PUT /api/xpubs/:id: 400 without a label, 404 for no such row, the relabelled row otherwise
PUT_xpubs_id(id, body) ==
    /\ IF body.label = ""
       THEN /\ response' = Reply(400, <<>>)
            /\ UNCHANGED xpubs
       ELSE IF id \notin DOMAIN xpubs
       THEN /\ response' = Reply(404, <<>>)
            /\ UNCHANGED xpubs
       ELSE /\ xpubs' = [xpubs EXCEPT ![id].label = body.label]
            /\ response' = Reply(200, <<xpubs'[id]>>)
    /\ UNCHANGED <<psbts, nextId, descriptors, sqlite_sequence, pageVars>>

\* DELETE /api/xpubs/:id: xpubOperations.delete answers this.changes > 0
DELETE_xpubs_id(id) ==
    /\ xpubs' = DbDelete(xpubs, id)
    /\ response' = IF id \in DOMAIN xpubs THEN Reply(200, Changes(TRUE)) ELSE Reply(404, Changes(FALSE))
    /\ UNCHANGED <<psbts, nextId, descriptors, sqlite_sequence, pageVars>>

\* GET /api/psbts
GET_psbts(header) ==
    /\ response' = Reply(200, GetAll(psbts, getSessionId(header)))
    /\ UNCHANGED <<psbts, nextId, xpubs, descriptors, sqlite_sequence, pageVars>>

\* POST /api/psbts: a field left out (name, psbt_data, signatures_count)
PostMissing(body) ==
    \/ body.name = ""
    \/ body.psbt_data = NoPsbt
    \/ "signatures_count" \notin DOMAIN body

\* POST /api/psbts: 400 for a missing field or M > N, 201 and the new row otherwise
POST_psbts(header, body, limit) ==
    /\ IF PostMissing(body) \/ PostRejected(body)
       THEN /\ response' = Reply(400, <<>>)
            /\ UNCHANGED <<psbts, nextId>>
       ELSE /\ nextId <= limit
            /\ psbts' = DbCreate(psbts, nextId, body.psbt_data, body.m_required,
                                 body.n_total, body.signatures_count, getSessionId(header))
            /\ nextId' = nextId + 1
            /\ response' = Reply(201, <<psbts'[nextId]>>)
    /\ UNCHANGED <<xpubs, descriptors, sqlite_sequence, pageVars>>

\* PUT /api/psbts/:id: 400 without data or count, 404 for no such row, the updated row
\* otherwise
PUT_psbts_id(id, body) ==
    /\ IF body.psbt_data = NoPsbt \/ "signatures_count" \notin DOMAIN body
       THEN /\ response' = Reply(400, <<>>)
            /\ UNCHANGED psbts
       ELSE IF id \notin DOMAIN psbts
       THEN /\ response' = Reply(404, <<>>)
            /\ UNCHANGED psbts
       ELSE /\ psbts' = DbUpdate(psbts, id, body.psbt_data, body.signatures_count)
            /\ response' = Reply(200, <<psbts'[id]>>)
    /\ UNCHANGED <<nextId, xpubs, descriptors, sqlite_sequence, pageVars>>

\* PATCH /api/psbts/:id/broadcast: 400 without txid or for a status outside validStatuses,
\* 404 for no such row, the updated row otherwise; status || 'broadcast'
PATCH_psbts_id_broadcast(id, body) ==
    /\ LET newStatus == IF body.status = "" THEN "broadcast" ELSE body.status
           r == PatchBroadcast(psbts, id, body.txid, newStatus, body.confirmations)
       IN /\ psbts' = r.db
          /\ response' = IF body.txid = 0 \/ newStatus \notin validStatuses
                         THEN Reply(400, <<>>)
                         ELSE IF ~r.ok THEN Reply(404, <<>>)
                         ELSE Reply(200, <<r.db[id]>>)
    /\ UNCHANGED <<nextId, xpubs, descriptors, sqlite_sequence, pageVars>>

\* DELETE /api/psbts/:id
DELETE_psbts_id(id) ==
    /\ psbts' = DbDelete(psbts, id)
    /\ response' = IF id \in DOMAIN psbts THEN Reply(200, Changes(TRUE)) ELSE Reply(404, Changes(FALSE))
    /\ UNCHANGED <<nextId, xpubs, descriptors, sqlite_sequence, pageVars>>

\* GET /api/descriptors
GET_descriptors(header) ==
    /\ response' = Reply(200, GetAll(descriptors, getSessionId(header)))
    /\ UNCHANGED <<psbts, nextId, xpubs, descriptors, sqlite_sequence, pageVars>>

\* descriptorOperations.create: the row of a new descriptor
DescriptorRow(id, body, sessionId) ==
    [id |-> id, name |-> body.name, descriptor |-> body.descriptor,
     m_required |-> body.m_required, n_total |-> body.n_total,
     first_address |-> body.first_address, session_id |-> sessionId]

\* POST /api/descriptors: 400 for a missing field, 201 and the new row otherwise
POST_descriptors(header, body, limit) ==
    /\ IF body.name = "" \/ body.descriptor = "" \/ body.m_required = 0 \/ body.n_total = 0
       THEN /\ response' = Reply(400, <<>>)
            /\ UNCHANGED <<descriptors, sqlite_sequence>>
       ELSE LET id == sqlite_sequence.descriptors + 1
                row == DescriptorRow(id, body, getSessionId(header))
            IN /\ id <= limit
               /\ descriptors' = Insert(descriptors, id, row)
               /\ sqlite_sequence' = [sqlite_sequence EXCEPT !.descriptors = id]
               /\ response' = Reply(201, <<row>>)
    /\ UNCHANGED <<psbts, nextId, xpubs, pageVars>>

\* DELETE /api/descriptors/:id
DELETE_descriptors_id(id) ==
    /\ descriptors' = DbDelete(descriptors, id)
    /\ response' = IF id \in DOMAIN descriptors THEN Reply(200, Changes(TRUE))
                   ELSE Reply(404, Changes(FALSE))
    /\ UNCHANGED <<psbts, nextId, xpubs, sqlite_sequence, pageVars>>

\* the requests sent to the server: with no session id or with a private one
Headers == {"", "vault"}
RowIds == 1..2

\* POST /api/xpubs: a key, no label, no key, a private key, a key too short
XpubBodies ==
    {[label |-> "Key", xpub |-> KeyText(1)],
     [label |-> "", xpub |-> KeyText(1)],
     [label |-> "Key", xpub |-> EmptyText],
     [label |-> "Key", xpub |-> XpubText("xprv", 1)],
     [label |-> "Key", xpub |-> [prefix |-> "xpub", chars |-> 20, key |-> 1]]}

LabelBodies == {[label |-> "Cold"], [label |-> ""]}

\* a 1-of-2 transaction unsigned and signed
Unsigned == SignedBy(TxOther, {})
Signed == SignedBy(TxOther, {1})

PostBody(name, p, m, n, k) ==
    [name |-> name, psbt_data |-> p, m_required |-> m, n_total |-> n, signatures_count |-> k]

\* POST /api/psbts with a field missing or M > N
BadPostBodies ==
    {PostBody("", Unsigned, 1, 2, 0),
     PostBody("tx", NoPsbt, 1, 2, 0),
     [name |-> "tx", psbt_data |-> Unsigned, m_required |-> 1, n_total |-> 2],
     PostBody("tx", Unsigned, 0, 2, 0),
     PostBody("tx", Unsigned, 3, 2, 0)}

\* PUT /api/psbts/:id without data or without count
BadPutBodies == {[psbt_data |-> NoPsbt, signatures_count |-> 1], [psbt_data |-> Signed]}

\* PATCH /api/psbts/:id/broadcast without txid or with an invalid status
BadPatchBodies ==
    {[txid |-> 0, status |-> "final", confirmations |-> 6],
     [txid |-> TxId(TxOther), status |-> "ready", confirmations |-> 0]}

DescriptorBodies ==
    {[name |-> "vault", descriptor |-> "wsh(sortedmulti(...))", m_required |-> 2,
      n_total |-> 2, first_address |-> <<>>],
     [name |-> "", descriptor |-> "wsh(sortedmulti(...))", m_required |-> 2,
      n_total |-> 2, first_address |-> <<>>],
     [name |-> "vault", descriptor |-> "wsh(sortedmulti(...))", m_required |-> 0,
      n_total |-> 2, first_address |-> <<>>]}

\* the three routers under requests of two sessions
NextServer ==
    \/ \E h \in Headers : GET_xpubs(h)
    \/ \E h \in Headers : \E b \in XpubBodies : POST_xpubs(h, b, 2)
    \/ \E id \in RowIds : \E b \in LabelBodies : PUT_xpubs_id(id, b)
    \/ \E id \in RowIds : DELETE_xpubs_id(id)
    \/ \E h \in Headers : GET_psbts(h)
    \/ \E h \in Headers : \E b \in BadPostBodies \cup {PostBody("tx", Unsigned, 1, 2, 0)} :
          POST_psbts(h, b, 2)
    \/ \E id \in RowIds : \E b \in BadPutBodies \cup {[psbt_data |-> Signed, signatures_count |-> 1]} :
          PUT_psbts_id(id, b)
    \/ \E id \in RowIds : \E b \in BadPatchBodies : PATCH_psbts_id_broadcast(id, b)
    \/ \E id \in RowIds : DELETE_psbts_id(id)
    \/ \E h \in Headers : GET_descriptors(h)
    \/ \E h \in Headers : \E b \in DescriptorBodies : POST_descriptors(h, b, 1)
    \/ \E id \in RowIds : DELETE_descriptors_id(id)

SpecServer == Init /\ [][NextServer]_vars

\* the psbts router alone, under bodies whose count agrees with the blob or not
RecordBlobs == {Unsigned, Signed, SignedBy(TxMain, {1}), Psbt(TxMain, <<{1, 2}, {1}>>)}

RecordPostBodies ==
    {PostBody("tx", p, getSignatureInfo(p).required, getSignatureInfo(p).total, k) :
        p \in RecordBlobs, k \in 0..2}

RecordPutBodies == {[psbt_data |-> p, signatures_count |-> k] : p \in RecordBlobs, k \in 0..2}

RecordPatchBodies ==
    BadPatchBodies \cup {[txid |-> TxId(TxOther), status |-> "", confirmations |-> 0]}

NextRecords ==
    \/ \E b \in RecordPostBodies \cup BadPostBodies : POST_psbts("", b, 2)
    \/ \E id \in RowIds : \E b \in RecordPutBodies \cup BadPutBodies : PUT_psbts_id(id, b)
    \/ \E id \in RowIds : \E b \in RecordPatchBodies : PATCH_psbts_id_broadcast(id, b)
    \/ \E id \in RowIds : DELETE_psbts_id(id)
    \/ GET_psbts("")

SpecRecords == Init /\ [][NextRecords]_vars

\* ------------------------------------------------------------ client: the details view
\* two browsers open on two stored records and view their details: a transaction whose
\* first input spends a 2-of-N output and whose second input spends a 1-of-N output, and
\* a transaction with the same script on both inputs, with every set of signers
SignerSet ==
    {Psbt(tx, <<a, b>>) : tx \in {TxMixed, TxMain}, a \in SUBSET Keys, b \in SUBSET Keys}

InitSigners ==
    /\ \E p \in SignerSet : \E q \in SignerSet :
          LET first == getSignatureInfo(p)
              second == getSignatureInfo(q)
          IN psbts = DbCreate(DbCreate(<<>>, 1, p, first.required, first.total,
                                       first.signatures, PublicSession),
                              2, q, second.required, second.total, second.signatures,
                              PublicSession)
    /\ nextId = 3
    /\ allPsbts = [c \in Clients |-> LoadedList(psbts)]
    /\ op = [c \in Clients |-> IdleOp]
    /\ chains = [c \in Clients |-> initializeConfirmationTracking({}, LoadedList(psbts))]
    /\ bt = [c \in Clients |-> IdleBroadcast]
    /\ eb = [c \in Clients |-> IdleBroadcast]
    /\ modal = [c \in Clients |-> NoModal]
    /\ txHeight = [t \in 1..Len(TxList) |-> -1]
    /\ tip = 0
    /\ submitted = {}
    /\ NoKeys

NextSigners ==
    \/ \E c \in Clients : \E id \in 1..2 : viewPsbtDetails(c, id)

SpecSigners == InitSigners /\ [][NextSigners]_vars

\* ------------------------------------------------------------ client: the key list
\* the variables the key handlers leave alone
psbtVars == <<psbts, nextId, allPsbts, op, chains, bt, eb, modal, txHeight, tip, submitted>>

\* loadXpubs: GET /api/xpubs under the page's session, updateXpubSelection, updateMNValues
loadXpubs(table, sessionId) ==
    /\ allXpubs' = XpubsGetAll(table, sessionId)
    /\ nValue' = updateMNValues(selectedXpubIds', mValue).n
    /\ mValue' = updateMNValues(selectedXpubIds', mValue).m

\* addXpub: nothing without a key; POST /api/xpubs with the session header, loadXpubs
\* after a 201, a toast otherwise
addXpub(label, xpub, limit) ==
    /\ xpub # EmptyText
    /\ UNCHANGED selectedXpubIds
    /\ IF ~isValidXpub(xpub) \/ UniqueViolated(xpubs, xpub, currentSessionId)
       THEN /\ response' = Reply(IF isValidXpub(xpub) THEN 409 ELSE 400, <<>>)
            /\ UNCHANGED <<xpubs, sqlite_sequence, allXpubs, nValue, mValue>>
       ELSE LET id == sqlite_sequence.xpubs + 1
                row == XpubRow(id, IF label = "" THEN "Key #" ELSE label, xpub,
                               currentSessionId)
            IN /\ id <= limit
               /\ xpubs' = Insert(xpubs, id, row)
               /\ sqlite_sequence' = [sqlite_sequence EXCEPT !.xpubs = id]
               /\ response' = Reply(201, <<row>>)
               /\ loadXpubs(xpubs', currentSessionId)
    /\ UNCHANGED <<psbtVars, descriptors, currentSessionId, addressIndex, addressOutput,
                   signerStatus>>

\* deleteXpub(id): the Delete button of a card, confirmed; DELETE /api/xpubs/:id, then
\* loadXpubs when the answer is ok; selectedXpubIds is left as it is
deleteXpub(id) ==
    /\ \E i \in DOMAIN allXpubs : allXpubs[i].id = id
    /\ UNCHANGED selectedXpubIds
    /\ xpubs' = DbDelete(xpubs, id)
    /\ IF id \in DOMAIN xpubs
       THEN /\ response' = Reply(200, Changes(TRUE))
            /\ loadXpubs(xpubs', currentSessionId)
       ELSE /\ response' = Reply(404, Changes(FALSE))
            /\ UNCHANGED <<allXpubs, nValue, mValue>>
    /\ UNCHANGED <<psbtVars, descriptors, sqlite_sequence, currentSessionId, addressIndex,
                   addressOutput, signerStatus>>

\* setSessionId(sessionId): the session buttons; reloadAllData clears the selection and
\* loads the keys and the PSBT records of the new session
setSessionId(c, sessionId) ==
    /\ currentSessionId' = sessionId
    /\ selectedXpubIds' = {}
    /\ loadXpubs(xpubs, sessionId)
    /\ LET list == [i \in {j \in DOMAIN psbts : psbts[j].session_id = sessionId} |-> psbts[i]]
       IN /\ allPsbts' = [allPsbts EXCEPT ![c] = list]
          /\ chains' = [chains EXCEPT ![c] = initializeConfirmationTracking(chains[c], list)]
    /\ ChainsBounded(c)
    /\ UNCHANGED <<psbts, nextId, op, bt, eb, modal, txHeight, tip, submitted, xpubs,
                   descriptors, sqlite_sequence, response, addressIndex, addressOutput,
                   signerStatus>>

\* updateMNValues enables the generate button for two selected ids or more
generateEnabled == Cardinality(selectedXpubIds) >= 2

\* the key tab under registrations, deletions, selection, M edits and session changes
MaxXpubIds == 3
KeysTyped == {KeyText(1), KeyText(2), EmptyText, XpubText("xprv", 1)}
SessionsTyped == {PublicSession, "vault"}

InitKeys == InitAddress /\ Len(xpubs) <= 2

NextKeys ==
    \/ \E x \in KeysTyped : addXpub("", x, MaxXpubIds)
    \/ \E id \in 1..MaxXpubIds : deleteXpub(id)
    \/ \E id \in 1..MaxXpubIds : toggleXpubCard(id)
    \/ \E v \in TypedM : editM(v)
    \/ \E s \in SessionsTyped : setSessionId(1, s)
    \/ generateEnabled /\ generateAddress

SpecKeys == InitKeys /\ [][NextKeys]_vars

\* ------------------------------------------------------------ properties
\* the keys that signed input i of a PSBT
SignersOf(psbt, i) == psbt.inputs[i].partialSig

\* blob a holds every partial signature of blob b (of the same transaction)
HoldsAll(a, b) ==
    /\ a.tx = b.tx
    /\ \A i \in 1..Len(b.inputs) : SignersOf(b, i) \subseteq SignersOf(a, i)

\* client c's upload ends in this step
UploadEnds(c) == op[c].kind = "upload" /\ op[c].pc \in {"put", "post"} /\ op'[c].pc = "idle"

\* C2: when the merge PUT of one client's upload lands on a record of the same
\* transaction, the stored record afterwards holds every signature that was stored
\* before it (the other client's new signature included) and every uploaded one
C2_NoLostUpdate ==
    [][\A c \in Clients :
        (UploadEnds(c) /\ op[c].pc = "put" /\ op[c].id \in DOMAIN psbts
            /\ psbts[op[c].id].psbt_data.tx = op[c].body.tx)
        => /\ HoldsAll(psbts'[op[c].id].psbt_data, psbts[op[c].id].psbt_data)
           /\ HoldsAll(psbts'[op[c].id].psbt_data, op[c].body)]_vars

\* C3: an upload that matched a record of the loaded list ends without a new record:
\* the number of stored records is the same after it
C3_NoSecondRecord ==
    [][\A c \in Clients :
        (UploadEnds(c) /\ op[c].match # 0)
        => Cardinality(DOMAIN psbts') = Cardinality(DOMAIN psbts)]_vars

\* C4: a write of uploadPsbt or updatePsbtSignatures leaves every record with the
\* transaction it had and, on each input, with at least the signers it had
C4_NoSignatureLost ==
    [][\A c \in Clients :
        (op[c].pc \in {"put", "post"} /\ op'[c].pc = "idle")
        => \A id \in DOMAIN psbts \cap DOMAIN psbts' :
              HoldsAll(psbts'[id].psbt_data, psbts[id].psbt_data)]_vars

\* the stored record id needs two signatures, holds one, and is pending
OneOfTwo(id) ==
    /\ psbts[id].m_required = 2
    /\ psbts[id].signatures_count = 1
    /\ psbts[id].status = "pending"

\* the upload carries a signature of a key that has not signed the stored record
OtherPartySigned(id, psbt) ==
    /\ psbt.tx = psbts[id].psbt_data.tx
    /\ \E k \in Keys : \A i \in 1..Len(psbt.inputs) :
          k \in SignersOf(psbt, i) /\ k \notin SignersOf(psbts[id].psbt_data, i)

\* C5: uploading the other party's signature for a stored 1-of-2-signed record leaves
\* that record with signatures_count 2 and status ready
C5_ScenarioB ==
    [][\A c \in Clients :
        (UploadEnds(c) /\ op[c].match \in DOMAIN psbts /\ OneOfTwo(op[c].match)
            /\ OtherPartySigned(op[c].match, op[c].body))
        => /\ op[c].match \in DOMAIN psbts'
           /\ psbts'[op[c].match].signatures_count = 2
           /\ psbts'[op[c].match].status = "ready"]_vars

\* C6: an upload whose outpoints differ from those of every stored record ends with one
\* new record holding the uploaded PSBT and every other record as it was
C6_UnrelatedUpload ==
    [][\A c \in Clients :
        (UploadEnds(c) /\ op'[c].outcome # "error"
            /\ \A id \in DOMAIN psbts : TxInputsKey(psbts[id].psbt_data) # TxInputsKey(op[c].body))
        => /\ DOMAIN psbts' = DOMAIN psbts \cup {nextId}
           /\ psbts'[nextId].psbt_data = op[c].body
           /\ \A id \in DOMAIN psbts : psbts'[id] = psbts[id]]_vars

\* the place of a broadcast-family status in broadcast < confirmed_1 < ... < final
Rank(status) ==
    IF status = "broadcast" THEN 0
    ELSE IF status = "final" THEN FINALITY
    ELSE CHOOSE k \in 1..5 : ConfirmedName[k] = status

\* a confirmation poll of page c writes its PATCH in this step
PollWrites(c, ch) ==
    ch \in chains[c] /\ ch.kind = "poll" /\ ch.pc = "patch" /\ ch \notin chains'[c]

\* C1: the PATCH of a confirmation poll never lowers the stored confirmations of the
\* record with that txid, nor moves its status back in broadcast < confirmed_k < final
C1_DepthMonotonic ==
    [][\A c \in Clients : \A ch \in chains[c] :
        (PollWrites(c, ch) /\ ch.id \in DOMAIN psbts /\ psbts[ch.id].txid = ch.txid
            /\ psbts[ch.id].status \in validStatuses)
        => /\ psbts'[ch.id].confirmations >= psbts[ch.id].confirmations
           /\ Rank(psbts'[ch.id].status) >= Rank(psbts[ch.id].status)]_vars

\* C7: a record whose status is broadcast, confirmed_k or final is never set back to
\* pending or ready by a later step
C7_NoWayBack ==
    [][\A id \in DOMAIN psbts \cap DOMAIN psbts' :
        psbts[id].status \in validStatuses => psbts'[id].status \notin {"pending", "ready"}]_vars

\* every input of the PSBT carries at least the M signatures its script asks for
EveryInputSigned(psbt) ==
    \A i \in 1..Len(psbt.inputs) :
        Cardinality(SignersOf(psbt, i)) >= psbt.inputs[i].witnessScript.m

\* page c starts a broadcast of this row in this step, through either entry point
BroadcastStarts(c, row, o) ==
    \/ ~modal[c].open /\ modal'[c].open /\ row = modal'[c].row /\ o = bt'[c]
    \/ ~modal[c].confirmDisabled /\ modal'[c].confirmDisabled /\ row = modal[c].row /\ o = eb'[c]

\* C8: every submission to a broadcast endpoint carries a PSBT that finalizes, and a
\* broadcast of a PSBT with an input short of M signatures ends as a finalization
\* failure with no submission and the stored records unchanged
C8_FinalizeFirst ==
    /\ [](\A s \in submitted : EveryInputSigned(s.psbt_data))
    /\ [][\A c \in Clients : \A row \in {modal[c].row, modal'[c].row} : \A o \in {bt'[c], eb'[c]} :
            (BroadcastStarts(c, row, o) /\ ~EveryInputSigned(row.psbt_data))
            => /\ o.outcome = "finalize_failed" /\ o.pc = "idle"
               /\ submitted' = submitted
               /\ psbts' = psbts]_vars

\* a ready row that does not finalize was sent through both entry points: nothing submitted
C8_Witness ==
    /\ bt[1].outcome = "finalize_failed"
    /\ eb[1].outcome = "finalize_failed"
    /\ modal[1].row.status = "ready" /\ ~EveryInputSigned(modal[1].row.psbt_data)
    /\ submitted = {}

\* executeBroadcast has gone past Promise.all on page c
PastBroadcast(c) ==
    \/ eb[c].pc \in {"check", "verify", "patch"}
    \/ eb[c].pc = "idle" /\ eb[c].outcome \notin {"none", "finalize_failed"}

\* C9: executeBroadcast sends to every endpoint once, decides after every endpoint has
\* answered, counts the broadcast as accepted exactly when an endpoint accepted, and
\* when all reject without an already-broadcast text ends as a terminal failure that
\* sends nothing again and leaves the stored records as they were
C9_FanOut ==
    /\ [](\A c \in Clients :
            /\ eb[c].pc = "broadcast" \/ PastBroadcast(c) =>
                  \A e \in Endpoints : eb[c].sent[e] = 1
            /\ PastBroadcast(c) =>
                  /\ \A e \in Endpoints : eb[c].results[e] \in {"ok", "already", "rejected"}
                  /\ (eb[c].pc = "verify" \/ eb[c].outcome \in {"confirmed", "accepted"})
                        <=> (\E e \in Endpoints : eb[c].results[e] = "ok"))
    /\ [][\A c \in Clients :
            (eb[c].pc = "broadcast" /\ eb'[c].pc # "broadcast"
                /\ \A e \in Endpoints : eb[c].results[e] = "rejected")
            => /\ eb'[c].pc = "idle" /\ eb'[c].outcome = "failed"
               /\ eb'[c].sent = eb[c].sent /\ ~eb'[c].patched
               /\ submitted' = submitted
               /\ psbts' = psbts]_vars

\* every endpoint rejected without an already-broadcast text: terminal failure, the
\* record still ready and without txid
C9_Witness ==
    /\ eb[1].pc = "idle" /\ eb[1].outcome = "failed"
    /\ \A e \in Endpoints : eb[1].results[e] = "rejected" /\ eb[1].sent[e] = 1
    /\ 1 \in DOMAIN psbts /\ psbts[1].status = "ready" /\ psbts[1].txid = 0

\* C10: a broadcast, through either entry point, that every endpoint rejected with at
\* least one already-broadcast text does not end as a terminal failure: it ends after
\* the lookup of the txid
C10_AlreadyBroadcast ==
    \A c \in Clients : \A o \in {bt[c], eb[c]} :
        (/\ o.pc = "idle"
         /\ \A e \in Endpoints : o.results[e] \in {"already", "rejected"}
         /\ \E e \in Endpoints : o.results[e] = "already")
        => o.outcome \in {"found", "unverified"}

\* C11: no endpoint the transaction was submitted to is counted among the independent
\* confirmations of that broadcast, through either entry point
C11_IndependentOnly ==
    \A c \in Clients : \A o \in {bt[c], eb[c]} :
        o.indep \cap {e \in Endpoints : o.sent[e] > 0} = {}

\* the record is gone from the store and from the list page c holds: deletePsbt completed
Deleted(c, id) == id \notin DOMAIN psbts /\ id \notin DOMAIN allPsbts[c]

\* page c issues a confirmation lookup for the record in this step
LookupIssued(c, id) ==
    \E ch \in chains'[c] \ chains[c] : ch.id = id /\ ch.pc = "check"

\* C12: once deletePsbt completed for a record, no timer of that record fires any more:
\* no further confirmation lookup is issued for its id
C12_DeleteCancels ==
    [][\A c \in Clients : \A ch \in chains[c] : Deleted(c, ch.id) => ~LookupIssued(c, ch.id)]_vars

\* the lookup at one explorer fails: the request throws, or the tip-height request is
\* not answered with success after the transaction lookup found a confirmed transaction
ExplorerFails(t, r) ==
    r.tx = "throw" \/ (r.tx = "ok" /\ confirmed(t) /\ r.height # "ok")

\* the confirmation check of t cannot complete with these answers of the two explorers
CannotComplete(t, b, m) ==
    \/ ExplorerFails(t, b)
    \/ ExplorerCheck(t, b) = "next" /\ (ExplorerFails(t, m) \/ ExplorerCheck(t, m) = "next")

\* C15: a poll whose confirmation check cannot complete writes nothing: no step takes
\* the poll to a PATCH of what such a check returned (it goes to its retry timer)
C15_FailedCheckKeeps ==
    [][\A c \in Clients : \A ch \in chains[c] : \A b, m \in Responses :
        (ch.kind = "poll" /\ ch.pc = "check" /\ CannotComplete(ch.txid, b, m))
        => PollChain(ch.id, ch.txid, ch.cur, "patch", checkConfirmations(ch.txid, b, m), FALSE)
               \notin chains'[c] \ chains[c]]_vars

\* checkIfAlreadyBroadcast of page c takes the depth n of a found transaction in this step
AibFinds(c, ch, n) ==
    /\ ch \in chains[c] /\ ch.kind = "aib" /\ ch.pc = "check"
    /\ AibChain(ch.id, ch.txid, "patch", n) \in chains'[c] \ chains[c]

\* checkIfAlreadyBroadcast of page c sends its PATCH in this step
AibWrites(c, ch) ==
    ch \in chains[c] /\ ch.kind = "aib" /\ ch.pc = "patch" /\ ch \notin chains'[c]

\* the depth checkIfAlreadyBroadcast goes on to store is the depth of the transaction
C16_DepthFound ==
    [][\A c \in Clients : \A ch \in chains[c] : \A n \in 0..MaxTip :
        AibFinds(c, ch, n) => known(ch.txid) /\ n = DepthNow(ch.txid)]_vars

\* the PATCH stores the txid, the depth taken and the status of that depth
C16_Stored ==
    [][\A c \in Clients : \A ch \in chains[c] :
        (AibWrites(c, ch) /\ ch.id \in DOMAIN psbts)
        => /\ psbts'[ch.id].txid = ch.txid
           /\ psbts'[ch.id].confirmations = ch.new
           /\ psbts'[ch.id].status = StatusOfDepth(ch.new)]_vars

\* a transaction no explorer knows leaves the record as it is
C16_UnknownKeeps ==
    [][\A c \in Clients : \A ch \in chains[c] :
        (ch.kind = "aib" /\ ch.pc = "check" /\ ~known(ch.txid) /\ ch \notin chains'[c])
        => /\ psbts' = psbts
           /\ \A d \in chains'[c] \ chains[c] : d.kind # "aib"]_vars

\* C16: checkIfAlreadyBroadcast sets a ready record without txid whose transaction an
\* explorer knows to broadcast, confirmed_k or final with its txid and its depth, and
\* leaves the record unchanged when no explorer knows the transaction
C16_FastForward == C16_DepthFound /\ C16_Stored /\ C16_UnknownKeeps

\* the statuses of a transaction that was broadcast and is not final yet
NotYetFinal == {"broadcast"} \cup {ConfirmedName[k] : k \in 1..5}

\* a confirmation poll of the record is in flight or waits on its timer on page c
PollerRuns(c, id) == \E ch \in chains[c] : ch.kind = "poll" /\ ch.id = id

\* page c starts a poll of the record in this step: a new pollConfirmations(id, txid, 0)
\* that is not the firing of a timer of that record
PollerStarted(c, id) ==
    /\ \E ch \in chains'[c] \ chains[c] :
          ch.kind = "poll" /\ ch.id = id /\ ch.pc = "check" /\ ch.cur = 0
    /\ ~\E t \in chains[c] \ chains'[c] :
          t.kind = "poll" /\ t.id = id /\ t.pc = "timer" /\ t.cur = 0

MaxSigs(psbt) ==
    LET counts == {Cardinality(psbt.inputs[i].partialSig) : i \in DOMAIN psbt.inputs} \cup {0}
    IN CHOOSE x \in counts : \A y \in counts : y <= x

\* the details view of page c shows the signature section of a stored record
Viewed(c) == op[c].kind = "view" /\ op[c].outcome = "shown" /\ op[c].id \in DOMAIN psbts

\* C18: the signature count getSignatureInfo reports is the maximum over the inputs of
\* the partial signatures on an input, isComplete is count >= M, and with M = N it is
\* false at N-1 signatures and true at N; the stored count of a record is that maximum
C18_MaxNotSum ==
    /\ \A c \in Clients :
          Viewed(c)
          => LET info == op[c].sigInfo
             IN /\ info.signatures = MaxSigs(psbts[op[c].id].psbt_data)
                /\ info.isComplete <=> info.signatures >= info.required
                /\ (info.required = info.total /\ info.signatures = info.total - 1)
                      => ~info.isComplete
                /\ (info.required = info.total /\ info.signatures = info.total)
                      => info.isComplete
    /\ \A id \in DOMAIN psbts :
          psbts[id].signatures_count = MaxSigs(psbts[id].psbt_data)

\* the view of a record whose two inputs carry one signature each, by different keys
C18_Witness ==
    /\ Viewed(1)
    /\ psbts[op[1].id].psbt_data = Psbt(TxMain, <<{1}, {2}>>)
    /\ op[1].sigInfo.signatures = 1
    /\ ~op[1].sigInfo.isComplete

\* the set of outputs the unsigned transaction of a PSBT spends
InputSet(psbt) == {psbt.tx.ins[i] : i \in DOMAIN psbt.tx.ins}

\* the equivalence test of findMatchingPsbt, applied to two PSBTs
Equivalent(a, b) == findMatchingPsbt(<<[psbt_data |-> a]>>, b) # 0

\* page c has run findMatchingPsbt for an upload and the request it led to is in flight
Matched(c) == op[c].kind = "upload" /\ op[c].pc \in {"put", "post"}

\* C19: the equivalence test of findMatchingPsbt is reflexive and symmetric, holds for
\* the same inputs in any order, and fails for PSBTs with disjoint input sets: an
\* upload matches a listed record exactly when one spends the same set of outputs
C19_Equivalence ==
    \A c \in Clients :
        Matched(c)
        => LET new == op[c].body
               list == allPsbts[c]
           IN /\ Equivalent(new, new)
              /\ \A id \in DOMAIN list :
                    /\ Equivalent(list[id].psbt_data, list[id].psbt_data)
                    /\ Equivalent(list[id].psbt_data, new) <=> Equivalent(new, list[id].psbt_data)
                    /\ InputSet(list[id].psbt_data) = InputSet(new)
                          => Equivalent(list[id].psbt_data, new) /\ op[c].match # 0
                    /\ InputSet(list[id].psbt_data) \cap InputSet(new) = {}
                          => ~Equivalent(list[id].psbt_data, new) /\ op[c].match # id
              /\ op[c].match # 0
                    => InputSet(list[op[c].match].psbt_data) = InputSet(new)

\* an upload that lists the inputs of a stored transaction in the other order found it
C19_Witness ==
    /\ Matched(1)
    /\ op[1].match # 0
    /\ op[1].body.tx = TxSwap
    /\ allPsbts[1][op[1].match].psbt_data.tx = TxMain

\* the upload of page c is an identical copy of the record it matched
SelfMerge(c) ==
    /\ Matched(c)
    /\ op[c].match \in DOMAIN allPsbts[c]
    /\ allPsbts[c][op[c].match].psbt_data = op[c].body

C14_BroadcastReports ==
    /\ \A c \in Clients : (bt[c].pc = "broadcast") ~> (bt[c].pc # "broadcast")
    /\ \A c \in Clients : (eb[c].pc = "broadcast") ~> (eb[c].pc # "broadcast")

\* a poll of the record is scheduled or in flight on page c with this depth seen last
PollWaits(c, id, depth) ==
    \E ch \in chains[c] :
        ch.kind = "poll" /\ ch.id = id /\ ch.pc \in {"timer", "check"} /\ ch.cur = depth

\* the transaction of the stored record has reached finality and the page polls it
FinalAndPolled(c, id) ==
    /\ id \in DOMAIN psbts /\ psbts[id].txid # 0
    /\ DepthNow(psbts[id].txid) >= FINALITY
    /\ PollerRuns(c, id)

\* no poll of the record is left on page c and the stored status is final
StoppedAtFinal(c, id) ==
    /\ ~PollerRuns(c, id)
    /\ id \in DOMAIN psbts /\ psbts[id].status = "final"

SameTxMatched(c) ==
    /\ Matched(c)
    /\ op[c].match \in DOMAIN allPsbts[c]
    /\ allPsbts[c][op[c].match].psbt_data.tx = op[c].body.tx

\* the signer set of every input of a PSBT
SignerSets(psbt) == [i \in DOMAIN psbt.inputs |-> psbt.inputs[i].partialSig]

Orderings(xs) ==
    IF Len(xs) <= 3
    THEN {p \in [DOMAIN xs -> {xs[i] : i \in DOMAIN xs}] :
             \A i, j \in DOMAIN xs : i # j => p[i] # p[j]}
    ELSE {xs, Reverse(xs), Tail(xs) \o <<Head(xs)>>}

\* a step of generateAddress: the inputs stay, the panel is written
Generated == UNCHANGED <<selectedXpubIds, mValue, nValue, addressIndex>> /\ generateAddress

\* C22: generateAddress and generateMultisigAddress give the same script and the same
\* address for every ordering of the same keys, and the same again on every call, because
\* the derived public keys are sorted byte-wise before the script is built
C22_OrderIndependent ==
    [][(Generated /\ addressOutput'.className = "output")
       => LET xs == getSelectedXpubs
          IN /\ \A p \in Orderings(xs) :
                   /\ MultisigScript(mValue, p, addressIndex) = addressOutput'.script
                   /\ generateMultisigAddress(mValue, p, addressIndex)
                         = addressOutput'.address
                   /\ generateMultisigAddress(mValue, p, 0) = addressOutput'.firstAddress
             /\ addressOutput.className = "output"
                   /\ addressOutput.script = MultisigScript(mValue, xs, addressIndex)
                   => addressOutput' = addressOutput]_vars

\* an address of three keys whose derived public keys were not in byte order as selected
C22_Witness ==
    /\ addressOutput.className = "output"
    /\ Len(getSelectedXpubs) = 3
    /\ addressOutput.script = MultisigScript(mValue, getSelectedXpubs, addressIndex)
    /\ addressOutput.script
          # p2ms(mValue, [i \in 1..3 |-> publicKey(getSelectedXpubs[i], 0, addressIndex)])

\* the configuration generateAddress was called with is a valid one
ValidSelection ==
    /\ Len(getSelectedXpubs) = nValue
    /\ 1 <= mValue /\ mValue <= nValue
    /\ 2 <= nValue /\ nValue <= 15

\* C23: generateAddress produces an address only when the number of selected keys equals N,
\* 1 <= M <= N and 2 <= N <= 15; in every other case it reports an error before deriving
\* any key and shows no address
C23_ValidatedFirst ==
    [][Generated
       => /\ addressOutput'.className = "output" => ValidSelection
          /\ ~ValidSelection
                => /\ addressOutput'.className = "output error"
                   /\ addressOutput'.derived = 0
                   /\ addressOutput'.address = <<>>
                   /\ addressOutput'.firstAddress = <<>>]_vars

\* C24: for every stored PSBT record, after every create and every update,
\* signatures_count equals the maximum number of partial signatures on any input of the
\* stored psbt_data; a count the caller supplied that disagrees with the blob is never stored
C24_CountFromBlob ==
    \A id \in DOMAIN psbts : psbts[id].signatures_count = MaxSigs(psbts[id].psbt_data)

\* C25: after any sequence of create and update operations, every stored record whose
\* status is 'pending' or 'ready' has status 'ready' exactly when
\* signatures_count >= m_required
C25_StatusFollowsCount ==
    \A id \in DOMAIN psbts :
        psbts[id].status \in {"pending", "ready"}
        => (psbts[id].status = "ready" <=> psbts[id].signatures_count >= psbts[id].m_required)

\* a record that was marked broadcast and then updated below its threshold is pending
\* again, next to a ready one
C25_Witness ==
    /\ DOMAIN psbts = {1, 2}
    /\ psbts[1].status = "pending" /\ psbts[1].txid # 0
    /\ psbts[2].status = "ready" /\ psbts[2].m_required = 2

\* the registered key x derives the candidate at branch 0 or 1 and a leaf index 0..99
DerivesAt(x, target, branch, index) == Decodes(x) /\ publicKey(x, branch, index) = target

Derives(x, target) == \E b \in 0..1 : \E i \in 0..99 : DerivesAt(x, target, b, i)

Scope(header) == IF header = "" THEN "0" ELSE header

\* the rows of a table that were inserted with a scope
RowsOf(table, scope) == {table[i] : i \in {j \in DOMAIN table : table[j].session_id = scope}}

\* the elements of a list
Elements(list) == {list[i] : i \in DOMAIN list}

\* the rows both tables hold have the same scope in both
ScopeKept(old, new) ==
    \A id \in DOMAIN old \cap DOMAIN new : new[id].session_id = old[id].session_id

\* the rows only the new table holds have this scope
InsertedWith(old, new, scope) == \A id \in DOMAIN new \ DOMAIN old : new[id].session_id = scope

\* C27: for keys, PSBT records and descriptors, list(scope) returns exactly the records that
\* were inserted with that scope; a request without a session id uses session '0'
C27_ListByScope ==
    [][/\ ScopeKept(xpubs, xpubs') /\ ScopeKept(psbts, psbts')
       /\ ScopeKept(descriptors, descriptors')
       /\ response'.status = 200 /\ UNCHANGED <<xpubs, psbts, descriptors>>
             => \A h \in Headers :
                   /\ GET_xpubs(h)
                         => /\ Elements(response'.body) = RowsOf(xpubs, Scope(h))
                            /\ Len(response'.body) = Cardinality(RowsOf(xpubs, Scope(h)))
                   /\ GET_psbts(h)
                         => /\ Elements(response'.body) = RowsOf(psbts, Scope(h))
                            /\ Len(response'.body) = Cardinality(RowsOf(psbts, Scope(h)))
                   /\ GET_descriptors(h)
                         => /\ Elements(response'.body) = RowsOf(descriptors, Scope(h))
                            /\ Len(response'.body)
                                  = Cardinality(RowsOf(descriptors, Scope(h)))
       /\ response'.status = 201
             => \A h \in Headers :
                   /\ (\E b \in XpubBodies : POST_xpubs(h, b, 2))
                         => InsertedWith(xpubs, xpubs', Scope(h))
                   /\ (\E b \in {PostBody("tx", Unsigned, 1, 2, 0)} : POST_psbts(h, b, 2))
                         => InsertedWith(psbts, psbts', Scope(h))
                   /\ (\E b \in DescriptorBodies : POST_descriptors(h, b, 1))
                         => InsertedWith(descriptors, descriptors', Scope(h))]_vars

\* a record inserted without a session id is in session '0', and the list of the private
\* session shows only the record of that session
C27_Witness ==
    /\ DOMAIN psbts = {1, 2}
    /\ psbts[1].session_id = "0" /\ psbts[2].session_id = "vault"
    /\ psbts[2].psbt_data = Unsigned
    /\ response = Reply(200, <<psbts[2]>>)
    /\ \E i \in DOMAIN xpubs : xpubs[i].session_id = "0"

\* the session already holds this key
Registered(xpub, scope) ==
    \E i \in DOMAIN xpubs : xpubs[i].xpub = xpub /\ xpubs[i].session_id = scope

stored == <<xpubs, psbts, descriptors, nextId, sqlite_sequence>>

\* a request with a format or validation error is served in this step
Rejected ==
    \/ \E h \in Headers : \E b \in XpubBodies \ {[label |-> "Key", xpub |-> KeyText(1)]} :
          POST_xpubs(h, b, 2)
    \/ \E h \in Headers : \E b \in BadPostBodies : POST_psbts(h, b, 2)
    \/ \E id \in RowIds : \E b \in BadPutBodies : PUT_psbts_id(id, b)
    \/ \E id \in RowIds : \E b \in BadPatchBodies : PATCH_psbts_id_broadcast(id, b)

\* C29: a request rejected for a format or validation error (POST /api/xpubs without label
\* or key or with a key not shaped like a public extended key, POST /api/psbts with a
\* missing field or M > N, PUT /api/psbts/:id without data or count, PATCH broadcast
\* without txid or with a status outside the list) is answered 400 and leaves every
\* stored record unchanged
C29_RejectedUnchanged ==
    [][(response'.status = 400 /\ UNCHANGED stored) \/ ~Rejected]_vars

\* a request was rejected while every table held a record
C29_Witness ==
    /\ response.status = 400
    /\ xpubs # <<>> /\ descriptors # <<>>
    /\ \E id \in DOMAIN psbts : psbts[id].status = "pending"

\* the table after a delete holds every row it held except the row of this id, and the
\* reply tells whether there was such a row
DeletedFrom(table, after, id) ==
    /\ DOMAIN after = DOMAIN table \ {id}
    /\ \A i \in DOMAIN after : after[i] = table[i]
    /\ response'.body = Changes(id \in DOMAIN table)
    /\ id \notin DOMAIN table => after = table

\* C30: delete(id) on keys, PSBT records and descriptors removes exactly the record with
\* that id and returns true, or returns false and changes nothing when there is no such
\* record; it leaves the other two tables unchanged, so deleting a key leaves every PSBT
\* record and every descriptor as it was
C30_DeleteExactly ==
    [][\A id \in RowIds :
          /\ DELETE_xpubs_id(id)
                => DeletedFrom(xpubs, xpubs', id) /\ UNCHANGED <<psbts, descriptors>>
          /\ DELETE_psbts_id(id)
                => DeletedFrom(psbts, psbts', id) /\ UNCHANGED <<xpubs, descriptors>>
          /\ DELETE_descriptors_id(id)
                => DeletedFrom(descriptors, descriptors', id)
                   /\ UNCHANGED <<xpubs, psbts>>]_vars

\* one of two keys was deleted while a PSBT record and a descriptor were stored
C30_Witness ==
    /\ response = Reply(200, Changes(TRUE))
    /\ DOMAIN xpubs = {2} /\ sqlite_sequence.xpubs = 2
    /\ DOMAIN psbts = {1, 2} /\ DOMAIN descriptors = {1}

\* the broadcast requests page c sends to endpoint e in this step
SentInStep(c, e) ==
    (IF bt[c].pc # "broadcast" /\ bt'[c].pc = "broadcast" THEN bt'[c].sent[e] ELSE 0)
    + (IF eb[c].pc # "broadcast" /\ eb'[c].pc = "broadcast" THEN eb'[c].sent[e] ELSE 0)

\* C31: a step sends the raw transaction to a broadcast endpoint only when it is the press
\* of Broadcast Now in the open modal (opening the modal and cancelling it send nothing),
\* and that press sends it to each endpoint at most once
C31_ConfirmFirst ==
    [][\A c \in Clients : \A e \in Endpoints :
          /\ SentInStep(c, e) <= 1
          /\ SentInStep(c, e) > 0
                => modal[c].open /\ ~modal[c].confirmDisabled /\ modal'[c].confirmDisabled]_vars

\* the polling chains of page c for a record: scheduled timers and polls in flight
ChainsOf(c, id) == {ch \in chains[c] : ch.kind = "poll" /\ ch.id = id}

\* C32: at every moment a page has at most one active polling chain per PSBT record (one
\* scheduled timer or one poll in flight); starting tracking again replaces the chain
C32_OneChain ==
    \A c \in Clients : \A id \in 1..MaxRecords : Cardinality(ChainsOf(c, id)) <= 1

\* page c has grounds to record the transaction as broadcast: a broadcast endpoint accepted
\* it from either entry point, or the lookup found it
Evidence(c) ==
    \E o \in {bt[c], eb[c]} : successfulBroadcasts(o.results) # {} \/ o.outcome = "found"

\* the broadcast in flight o sends its PATCH for a record that is still ready
MarksBroadcast(o, after) ==
    /\ o.pc = "patch" /\ after.pc = "idle" /\ after.patched
    /\ o.id \in DOMAIN psbts /\ psbts[o.id].status = "ready"
    /\ psbts'[o.id].status = "broadcast" /\ psbts'[o.id].txid = o.txid

\* C33: a record's status is set to 'broadcast' with a txid only if a broadcast endpoint
\* accepted the transaction or a lookup reported that the txid exists; when every endpoint
\* rejected and the lookup could not verify, the record keeps 'ready' and no txid
C33_BroadcastNeedsEvidence ==
    [][\A c \in Clients :
          /\ MarksBroadcast(bt[c], bt'[c]) => Evidence(c)
          /\ MarksBroadcast(eb[c], eb'[c]) => Evidence(c)]_vars

\* a request by id sent under a session: the PUT, PATCH and DELETE routes of a PSBT record
\* read no session id, so the step is the same under every header
ById(header, id) ==
    \/ \E b \in {[psbt_data |-> Signed, signatures_count |-> 1]} : PUT_psbts_id(id, b)
    \/ \E b \in BadPatchBodies : PATCH_psbts_id_broadcast(id, b)
    \/ DELETE_psbts_id(id)

\* C34: a request made under one session id cannot modify or delete a PSBT record of
\* another session: update, updateBroadcastStatus and delete take effect only when the
\* record's session id equals the caller's
C34_SessionIsolation ==
    [][\A h \in Headers : \A id \in RowIds :
          (id \in DOMAIN psbts /\ psbts[id].session_id # Scope(h) /\ ById(h, id))
          => /\ id \in DOMAIN psbts' /\ psbts'[id] = psbts[id]
             /\ response'.status \notin {200, 201}]_vars

\* the record is ready by the count its own PSBT gives
ReadyByCount(row) ==
    /\ row.status = "ready"
    /\ row.signatures_count = getSignatureInfo(row.psbt_data).signatures
    /\ row.signatures_count >= row.m_required

\* C35: whenever a record is 'ready' because the signature count computed from its PSBT
\* (the maximum over the inputs) is >= M, finalizing that PSBT succeeds: every input
\* carries at least M signatures
C35_ReadyFinalizes ==
    \A id \in DOMAIN psbts :
        ReadyByCount(psbts[id])
        => /\ finalizePsbt(psbts[id].psbt_data).success
           /\ \A i \in DOMAIN psbts[id].psbt_data.inputs :
                 Cardinality(psbts[id].psbt_data.inputs[i].partialSig) >= psbts[id].m_required

\* C36: a record's status becomes a broadcast-family value (broadcast, confirmed_k, final)
\* only if it was 'ready' or already broadcast-family: PATCH /api/psbts/:id/broadcast never
\* moves a 'pending' record to a broadcast-family status
C36_BroadcastFromReady ==
    [][\A id \in DOMAIN psbts \cap DOMAIN psbts' :
          psbts'[id].status \in validStatuses
          => psbts[id].status \in {"ready"} \cup validStatuses]_vars

\* C37: after any sequence of key-card toggles, registrations, deletions, M edits and
\* session changes, N equals the number of selected keys that exist in the current key
\* list and 1 <= M <= max(1, N)
C37_NFollowsSelection ==
    /\ nValue = Len(getSelectedXpubs)
    /\ 1 <= mValue /\ mValue <= Max(1, nValue)

\* C38: the required M and the total N getSignatureInfo reports are those of the first
\* input's script, whatever the scripts of later inputs encode; later inputs contribute
\* their partial-signature counts only
C38_FirstInputScript ==
    \A c \in Clients :
        Viewed(c)
        => LET psbt == psbts[op[c].id].psbt_data
           IN /\ op[c].sigInfo.required = psbt.inputs[1].witnessScript.m
              /\ op[c].sigInfo.total = psbt.inputs[1].witnessScript.n
              /\ op[c].sigInfo.signatures = MaxSigs(psbt)

PairConsistent(status, k) ==
    \/ status = "broadcast" /\ k = 0
    \/ k \in 1..(FINALITY - 1) /\ status = ConfirmedName[k]
    \/ status = "final" /\ k >= FINALITY

PairWritten(id) ==
    /\ id \in DOMAIN psbts /\ id \in DOMAIN psbts'
    /\ psbts'[id].status \in validStatuses
    /\ <<psbts'[id].status, psbts'[id].confirmations>> # <<psbts[id].status, psbts[id].confirmations>>

\* the pairs alone: every (status, confirmations) pair a poll or an already-broadcast
\* check writes is consistent: 'broadcast' with 0, 'confirmed_k' with k for 1 <= k <= 5,
\* 'final' with a depth of 6 or more
C39_PairsConsistent ==
    [][\A id \in 1..MaxRecords :
          PairWritten(id) => PairConsistent(psbts'[id].status, psbts'[id].confirmations)]_vars

\* C39: checkConfirmations reports max(0, tip height - inclusion height + 1) for a
\* confirmed transaction and 0 for an unconfirmed one, and every (status, confirmations)
\* pair written from its result is consistent
C39_DepthAndPairs ==
    [][/\ \A c \in Clients : \A ch \in chains'[c] \ chains[c] :
             ch.pc = "patch" => ch.new = DepthNow(ch.txid)
       /\ \A id \in 1..MaxRecords :
             PairWritten(id) => PairConsistent(psbts'[id].status, psbts'[id].confirmations)]_vars

====
